---- MODULE Spec2Model ----
(***************************************************************************)
(* Model of the AI-impact assessment engine of adence-ai.                  *)
(*                                                                         *)
(*  - EnhancedAIAssessmentEngine                                           *)
(*    (src/src/lib/enhanced-assessment-engine.ts, second class definition, *)
(*    lines 772-1686): insight cache, batch queue,                         *)
(*    batch timer, external text-generation calls, response parsing.       *)
(*  - ValidatedAssessmentEngine (src/src/lib/onet-processor.ts, lines      *)
(*    563-1412): the scoring formula pipeline, task composition and        *)
(*    recommendations.                                                     *)
(*  - POST /api/assess (src/src/app/api/assess/route.ts): input validation *)
(*    and the classification of errors.                                    *)
(*                                                                         *)
(* Node runs one macrotask at a time and drains the microtask queue after  *)
(* it, so every action below is one macrotask together with the promise    *)
(* continuations it makes runnable.                                        *)
(***************************************************************************)
EXTENDS Integers, Sequences, FiniteSets, TLC

\* ---------------------------------------------------------------------
\* Program constants (enhanced-assessment-engine.ts:779-782)
\* ---------------------------------------------------------------------
CACHE_TTL == 3600000
MAX_CACHE_SIZE == 100
BATCH_SIZE == 3
BATCH_DELAY == 150

\* ---------------------------------------------------------------------
\* Bounds of the model
\* ---------------------------------------------------------------------
\* number of assess() calls in a behaviour
MaxReq == 2
\* number of times the clock is advanced in a behaviour
MaxTicks == 2

Reqs == 1..MaxReq
\* amounts by which Date.now() advances between macrotasks
TickSizes == {1, CACHE_TTL}
\* size of the cache at the start: the engine has already served
\* MAX_CACHE_SIZE - 1 distinct requests
Prefills == {MAX_CACHE_SIZE - 1}

NoTimer == -1

\* ---------------------------------------------------------------------
\* Strings as sequences of UTF-16 code units (String.charCodeAt)
\* ---------------------------------------------------------------------
StrProfessional == <<80, 114, 111, 102, 101, 115, 115, 105, 111, 110, 97, 108>>

LevelCodes(level) ==
  CASE level = "individual" -> <<105, 110, 100, 105, 118, 105, 100, 117, 97, 108>>
    [] level = "team_lead"  -> <<116, 101, 97, 109, 95, 108, 101, 97, 100>>
    [] level = "manager"    -> <<109, 97, 110, 97, 103, 101, 114>>
    [] level = "director"   -> <<100, 105, 114, 101, 99, 116, 111, 114>>
    [] level = "executive"  -> <<101, 120, 101, 99, 117, 116, 105, 118, 101>>

SkillCodes(skill) ==
  CASE skill = "python" -> <<112, 121, 116, 104, 111, 110>>
    [] skill = "sql"    -> <<115, 113, 108>>

\* Number.prototype.toString for a non-negative integer
RECURSIVE Digits(_)
Digits(n) == IF n < 10 THEN <<48 + n>> ELSE Digits(n \div 10) \o <<48 + (n % 10)>>

\* Array.prototype.join with a one-character separator
RECURSIVE Join(_, _)
Join(parts, sep) ==
  IF Len(parts) = 0 THEN <<>>
  ELSE IF Len(parts) = 1 THEN parts[1]
  ELSE parts[1] \o <<sep>> \o Join(Tail(parts), sep)

\* Array.prototype.slice(0, n)
SliceTo(s, n) == SubSeq(s, 1, IF Len(s) < n THEN Len(s) ELSE n)

\* ---------------------------------------------------------------------
\* generateCacheKey (enhanced-assessment-engine.ts:1191-1211)
\* The 32-bit hash is kept as two 16-bit halves <<hi, lo>> so that the
\* wrap-around of ((hash << 5) - hash) + char; hash = hash & hash is exact.
\* ---------------------------------------------------------------------
HashStep(h, c) ==
  LET lo2 == 31 * h[2] + c
      hi2 == 31 * h[1] + (lo2 \div 65536)
  IN  <<hi2 % 65536, lo2 % 65536>>

\* the loop of lines 1204-1208 from position i on; the test on h2 only makes
\* the model checker evaluate each step before the next one
RECURSIVE HashFrom(_, _, _)
HashFrom(h, str, i) ==
  IF i > Len(str) THEN h
  ELSE LET h2 == HashStep(h, str[i])
       IN  IF h2[1] >= 0 THEN HashFrom(h2, str, i + 1) ELSE h2

ToInt32(h) == IF h[1] >= 32768 THEN (h[1] - 65536) * 65536 + h[2] ELSE h[1] * 65536 + h[2]

KeyParts(content, features) ==
  << features.jobTitle,
     Digits(features.yearsExperience),
     LevelCodes(features.managementLevel),
     Join([i \in 1..Len(SliceTo(features.technicalSkills, 3)) |->
             SkillCodes(features.technicalSkills[i])], 45),
     Digits(content.length) >>

generateCacheKey(content, features) ==
  [hash |-> ToInt32(HashFrom(<<0, 0>>, Join(KeyParts(content, features), 124), 1)),
   level |-> features.managementLevel]

\* ---------------------------------------------------------------------
\* Inputs of assess(): the content (identity and length) and the detailed
\* features extractDetailedFeatures derives from it
\* ---------------------------------------------------------------------
MkInput(cid, len, title, years, level, skills) ==
  [content  |-> [cid |-> cid, length |-> len],
   features |-> [jobTitle |-> title, yearsExperience |-> years,
                 managementLevel |-> level, technicalSkills |-> skills]]

InputA == MkInput(1, 60, StrProfessional, 3, "individual", <<>>)
InputB == MkInput(2, 61, StrProfessional, 3, "individual", <<>>)

KeyOfInput(inp) == generateCacheKey(inp.content, inp.features)

\* the i-th request served before the behaviour starts
PrefillInput(i) == MkInput(100 + i, 50, StrProfessional, i, "individual", <<>>)
\* a request that repeats the earliest of them
InputP == PrefillInput(1)

Inputs == {InputA, InputB, InputP}

\* generateCacheKey of every input, computed once
CacheKeyOf == [inp \in Inputs |-> generateCacheKey(inp.content, inp.features)]

\* ---------------------------------------------------------------------
\* AIInsights values.  A field of a parsed response is one of
\*   "undef"     the field is absent
\*   "null"      a falsy value (null, 0, "", false)
\*   "empty"     [] (for an object-valued field: {})
\*   "valid"     a well-shaped, non-empty value
\*   "scalar"    a truthy value that is not an array (5, "n/a", {"a": 1})
\*   "nullelems" an array with a null element
\* and "default" is the value the generateDefault* helper synthesizes
\* from the request's own features and base assessment.
\* An insights object is [oid, src, f]: oid is the identity of the object,
\* src the request whose features and assessment it was built for.
\* ---------------------------------------------------------------------
Fields == {"taskSpecificImpacts", "uniqueStrengths", "adaptationStrategies",
           "industryContext", "researchCitations"}
\* the fields extractStructuredData has a regular expression for
Extractable == {"taskSpecificImpacts", "uniqueStrengths", "adaptationStrategies"}
JsonVals == {"undef", "null", "empty", "valid", "scalar", "nullelems"}
\* JSON.parse of a bracketed regex capture yields an array (or object), or fails
TextVals == {"undef", "empty", "valid", "nullelems"}

\* the object whose field fld has the value F(fld)
MapFields(F(_)) ==
  [taskSpecificImpacts |-> F("taskSpecificImpacts"),
   uniqueStrengths |-> F("uniqueStrengths"),
   adaptationStrategies |-> F("adaptationStrategies"),
   industryContext |-> F("industryContext"),
   researchCitations |-> F("researchCitations")]

AllFields(v) == MapFields(LAMBDA fld : v)
NoInsights == [oid |-> 0, src |-> 0, f |-> AllFields("undef")]

\* Outcomes of openai.chat.completions.create:
\*   kind "throw"    the call throws (timeout, rate limit, network)
\*   kind "json"     the cleaned content parses to an object with fields f
\*   kind "jsonnull" the cleaned content parses to null
\*   kind "text"     JSON.parse fails; f[fld] is what the regex for fld
\*                   captures and parses ("undef": no match or parse failure)
RespThrow == [kind |-> "throw", f |-> AllFields("undef")]
RespOk == [kind |-> "json", f |-> AllFields("valid")]
\* prose without any of the bracketed fields
RespProse == [kind |-> "text", f |-> AllFields("undef")]
RespBadShape == [kind |-> "json", f |-> [AllFields("valid") EXCEPT !["uniqueStrengths"] = "scalar"]]
NoResp == [kind |-> "none", f |-> AllFields("undef")]
\* the outcomes the engine model draws from
Responses == {RespThrow, RespOk, RespBadShape}

\* JavaScript truthiness of a field value, as used by  x || y
Truthy(v) == v \notin {"undef", "null"}

\* extractStructuredData (enhanced-assessment-engine.ts:1027-1070)
extractStructuredData(content) ==
  MapFields(LAMBDA fld :
     IF fld \in Extractable /\ content.f[fld] # "undef" THEN content.f[fld] ELSE "empty")

\* validateAndEnrichInsights (enhanced-assessment-engine.ts:1563-1576)
validateAndEnrichInsights(insights) ==
  MapFields(LAMBDA fld : IF Truthy(insights[fld]) THEN insights[fld] ELSE "default")

\* generateFallbackInsights (enhanced-assessment-engine.ts:1581-1592)
generateFallbackInsights == AllFields("default")

\* generateSingleAIInsight (enhanced-assessment-engine.ts:952-1022): the
\* fields of the object the returned promise is fulfilled with.  Every
\* statement is inside the outer try, so the promise is never rejected.
generateSingleAIInsight(resp) ==
  CASE resp.kind = "throw"    -> generateFallbackInsights
    [] resp.kind = "jsonnull" -> generateFallbackInsights
    [] resp.kind = "json"     -> validateAndEnrichInsights(resp.f)
    [] resp.kind = "text"     -> validateAndEnrichInsights(extractStructuredData(resp))

\* requestCount++ is reached only when create() returned (line 982)
CountsAsRequest(resp) == resp.kind # "throw"

\* Steps 4-6 of assess (enhanced-assessment-engine.ts:835-858):
\* identifyProtectiveFactors calls insights.uniqueStrengths.forEach and reads
\* strength.strength of every element, which throws a TypeError on a value
\* that is not an array or has a null element.
PostProcessingThrows(insights) == insights.f["uniqueStrengths"] \in {"scalar", "nullelems"}

\* ---------------------------------------------------------------------
\* The insight cache: a Map in insertion order, here a sequence of
\* [key, data, timestamp] (enhanced-assessment-engine.ts:774)
\* ---------------------------------------------------------------------
CacheIndex(cache, key) ==
  IF \E i \in 1..Len(cache) : cache[i].key = key
  THEN CHOOSE i \in 1..Len(cache) : cache[i].key = key
  ELSE 0

RemoveAt(s, i) == SubSeq(s, 1, i - 1) \o SubSeq(s, i + 1, Len(s))

\* variant: an entry counts as expired once its age reaches CACHE_TTL
ExpiredAtTtl(entry, t) == t - entry.timestamp >= CACHE_TTL

Expired(entry, t) == t - entry.timestamp > CACHE_TTL

\* variant: the age of the entry is not looked at
getCachedInsightsNoExpiry(cache, key, t) ==
  LET i == CacheIndex(cache, key) IN
  IF i = 0 THEN [data |-> NoInsights, cache |-> cache]
  ELSE [data |-> cache[i].data, cache |-> cache]

\* getCachedInsights (enhanced-assessment-engine.ts:1149-1160): the value
\* returned (NoInsights for null) and the cache it leaves
getCachedInsights(cache, key, t) ==
  LET i == CacheIndex(cache, key) IN
  IF i = 0 THEN [data |-> NoInsights, cache |-> cache]
  ELSE IF Expired(cache[i], t) THEN [data |-> NoInsights, cache |-> RemoveAt(cache, i)]
  ELSE [data |-> cache[i].data, cache |-> cache]

\* variant: a full cache gives up its latest entry instead of its earliest
setCachedInsightsEvictNewest(cache, key, insights, t) ==
  LET c1 == IF Len(cache) >= MAX_CACHE_SIZE THEN SubSeq(cache, 1, Len(cache) - 1) ELSE cache
      i == CacheIndex(c1, key)
      e == [key |-> key, data |-> insights, timestamp |-> t]
  IN  IF i = 0 THEN Append(c1, e) ELSE [c1 EXCEPT ![i] = e]

\* variant: the size test is  >  instead of  >=
setCachedInsightsOffByOne(cache, key, insights, t) ==
  LET c1 == IF Len(cache) > MAX_CACHE_SIZE THEN Tail(cache) ELSE cache
      i == CacheIndex(c1, key)
      e == [key |-> key, data |-> insights, timestamp |-> t]
  IN  IF i = 0 THEN Append(c1, e) ELSE [c1 EXCEPT ![i] = e]

\* variant: a key that is already present keeps the entry it has
setCachedInsightsKeepFirst(cache, key, insights, t) ==
  LET c1 == IF Len(cache) >= MAX_CACHE_SIZE THEN Tail(cache) ELSE cache
      i == CacheIndex(c1, key)
      e == [key |-> key, data |-> insights, timestamp |-> t]
  IN  IF i = 0 THEN Append(c1, e) ELSE c1

\* setCachedInsights (enhanced-assessment-engine.ts:1162-1176): delete the
\* first key of the Map when it is full, then Map.set, which keeps the
\* position of a key that is already present
setCachedInsights(cache, key, insights, t) ==
  LET c1 == IF Len(cache) >= MAX_CACHE_SIZE THEN Tail(cache) ELSE cache
      i == CacheIndex(c1, key)
      e == [key |-> key, data |-> insights, timestamp |-> t]
  IN  IF i = 0 THEN Append(c1, e) ELSE [c1 EXCEPT ![i] = e]

\* cleanupCache (enhanced-assessment-engine.ts:1178-1186)
cleanupCache(cache, t) == SelectSeq(cache, LAMBDA e : ~Expired(e, t))

CacheKeys(cache) == {cache[i].key : i \in 1..Len(cache)}


\* ---------------------------------------------------------------------
\* Exact arithmetic for the scoring formula.  The intermediate quantities
\* are decimal fractions [n, d] of machine integers; the final product does
\* not fit a machine integer and is kept as a natural number in limbs of
\* four decimal digits, least significant first.
\* ---------------------------------------------------------------------
RECURSIVE BigOf(_)
BigOf(k) == IF k < 10000 THEN <<k>> ELSE <<k % 10000>> \o BigOf(k \div 10000)

RECURSIVE BigNorm(_)
BigNorm(x) ==
  IF Len(x) > 1 /\ x[Len(x)] = 0 THEN BigNorm(SubSeq(x, 1, Len(x) - 1)) ELSE x

RECURSIVE BigMulFrom(_, _, _, _)
BigMulFrom(x, k, i, carry) ==
  IF i > Len(x) THEN (IF carry = 0 THEN <<>> ELSE BigOf(carry))
  ELSE LET v == x[i] * k + carry
       IN  <<v % 10000>> \o BigMulFrom(x, k, i + 1, v \div 10000)

\* x * k for 0 <= k < 200000
BigMulSmall(x, k) == BigNorm(BigMulFrom(x, k, 1, 0))

RECURSIVE BigAddFrom(_, _, _, _)
BigAddFrom(x, y, i, carry) ==
  IF i > Len(x) /\ i > Len(y) THEN (IF carry = 0 THEN <<>> ELSE <<carry>>)
  ELSE LET v == (IF i <= Len(x) THEN x[i] ELSE 0) + (IF i <= Len(y) THEN y[i] ELSE 0) + carry
       IN  <<v % 10000>> \o BigAddFrom(x, y, i + 1, v \div 10000)

BigAdd(x, y) == BigNorm(BigAddFrom(x, y, 1, 0))

\* x * k for any machine integer k >= 0
BigTimes(x, k) ==
  IF k < 10000 THEN BigMulSmall(x, k)
  ELSE BigAdd(BigMulSmall(x, k % 10000), BigNorm(<<0>> \o BigMulSmall(x, k \div 10000)))

RECURSIVE BigLeqFrom(_, _, _)
BigLeqFrom(x, y, i) ==
  IF i = 0 THEN TRUE
  ELSE IF x[i] # y[i] THEN x[i] < y[i]
  ELSE BigLeqFrom(x, y, i - 1)

BigLeq(x, y) ==
  IF Len(x) # Len(y) THEN Len(x) < Len(y) ELSE BigLeqFrom(x, y, Len(x))

Abs(k) == IF k < 0 THEN -k ELSE k

\* A JavaScript number that is the value of the final score:
\* +Infinity, or (neg ? -1 : 1) * n / d with d > 0
Infinity == [inf |-> TRUE, neg |-> FALSE, n |-> <<1>>, d |-> <<0>>]
FromInt(k) == [inf |-> FALSE, neg |-> k < 0, n |-> BigOf(Abs(k)), d |-> <<1>>]

\* s >= k for an integer k > 0
GeqInt(s, k) == IF s.inf THEN ~s.neg ELSE ~s.neg /\ BigLeq(BigTimes(s.d, k), s.n)

\* Math.max(0, s)
MathMax0(s) == IF s.neg THEN FromInt(0) ELSE s
\* Math.min(100, s)
MathMin100(s) == IF GeqInt(s, 100) THEN FromInt(100) ELSE s

\* the largest q in lo..hi with (2q - 1) * d <= n2, which holds for lo
RECURSIVE RoundSearch(_, _, _, _)
RoundSearch(n2, d, lo, hi) ==
  IF lo >= hi THEN lo
  ELSE LET mid == (lo + hi + 1) \div 2
       IN  IF BigLeq(BigTimes(d, 2 * mid - 1), n2)
           THEN RoundSearch(n2, d, mid, hi)
           ELSE RoundSearch(n2, d, lo, mid - 1)

\* a power of two q with (2q - 1) * d > n2
RECURSIVE RoundLimit(_, _, _)
RoundLimit(n2, d, q) ==
  IF BigLeq(BigTimes(d, 2 * q - 1), n2) THEN RoundLimit(n2, d, 2 * q) ELSE q

\* Math.round: floor(s + 1/2); a tie is rounded towards +Infinity
MathRound(s) ==
  IF s.inf THEN s
  ELSE LET n2 == BigTimes(s.n, 2)
           q == RoundSearch(n2, s.d, 0, RoundLimit(n2, s.d, 1))
       IN  IF ~s.neg THEN q
           ELSE IF q > 0 /\ BigTimes(s.d, 2 * q - 1) = n2 THEN -(q - 1)
           ELSE -q

\* Math.round of n / d for machine integers, d > 0
MathRoundSmall(n, d) == (2 * n + d) \div (2 * d)

\* ---------------------------------------------------------------------
\* Static tables of ValidatedAssessmentEngine (onet-processor.ts:572-690).
\* Decimal values are scaled to integers; the unit is given with each table.
\* ---------------------------------------------------------------------
\* AI_APPLICABILITY_SCORES (lines 572-588), units
AI_APPLICABILITY_SCORES ==
  ("administrative_clerical" :> 44) @@ ("sales_marketing" :> 46) @@
  ("technical_writing" :> 38) @@ ("data_analysis" :> 36) @@
  ("software_development" :> 35) @@ ("physical_trades" :> 2) @@
  ("healthcare_direct" :> 2) @@ ("education" :> 18) @@
  ("finance_accounting" :> 40) @@ ("customer_service" :> 44) @@
  ("management" :> 27) @@ ("creative_design" :> 30) @@ ("legal" :> 33) @@
  ("hr_recruiting" :> 41) @@ ("research_science" :> 39)

\* AUTOMATION_PROBABILITIES (lines 593-609), tenths
AUTOMATION_PROBABILITIES ==
  ("bookkeeping_accounting" :> 980) @@ ("data_entry" :> 990) @@
  ("administrative_support" :> 960) @@ ("telemarketing" :> 990) @@
  ("retail_sales" :> 920) @@ ("customer_service" :> 850) @@
  ("technical_writing" :> 890) @@ ("registered_nurses" :> 9) @@
  ("elementary_teachers" :> 4) @@ ("software_developers" :> 40) @@
  ("plumbers" :> 21) @@ ("electricians" :> 15) @@ ("physicians" :> 4) @@
  ("lawyers" :> 35) @@ ("managers" :> 90)

\* INDUSTRY_ADOPTION (lines 614-630): current, growth_factor and
\* value_creation in hundredths, maturity_score in tenths
Industry(cur, mat) ==
  [current |-> cur, growth_factor |-> 115, value_creation |-> 22, maturity_score |-> mat]

INDUSTRY_ADOPTION ==
  ("marketing_sales" :> Industry(78, 8)) @@ ("it_technology" :> Industry(71, 8)) @@
  ("service_operations" :> Industry(65, 6)) @@ ("manufacturing" :> Industry(45, 6)) @@
  ("healthcare" :> Industry(52, 4)) @@ ("construction" :> Industry(35, 2)) @@
  ("education" :> Industry(48, 4)) @@ ("finance" :> Industry(68, 8)) @@
  ("legal" :> Industry(42, 5)) @@ ("government" :> Industry(38, 3))

\* EDUCATION_FACTORS (lines 635-641), hundredths
EDUCATION_FACTORS ==
  ("no_high_school" :> 0) @@ ("high_school" :> 5) @@ ("some_college" :> 20) @@
  ("bachelors" :> 70) @@ ("masters_phd" :> 85)

\* GEOGRAPHIC_FACTORS (lines 646-652), tenths
GEOGRAPHIC_FACTORS ==
  ("major_tech_hub" :> 7) @@ ("large_urban" :> 5) @@ ("mid_urban" :> 3) @@
  ("small_urban" :> 2) @@ ("rural" :> 1)

\* INCOME_FACTORS (lines 657-662), tenths
INCOME_FACTORS ==
  ("under_30k" :> 1) @@ ("30k_60k" :> 2) @@ ("60k_120k" :> 5) @@ ("over_120k" :> 9)

\* DEMOGRAPHIC_FACTORS.age (lines 679-685) in units of 10^-7.  1.15 is not a
\* double: the nearest double is 1.1499999999999999112, so 0.5 * 1.15 * 100
\* evaluates to 57.49999999999999; the table keeps the value truncated.
DEMOGRAPHIC_AGE ==
  ("16_24" :> 13000000) @@ ("25_34" :> 11000000) @@ ("35_54" :> 10000000) @@
  ("55_plus" :> 11499999)

\* table[key] || default: a missing key and the number 0 are both falsy
OrDefault(table, key, default) ==
  IF key \in DOMAIN table /\ table[key] # 0 THEN table[key] ELSE default

\* ---------------------------------------------------------------------
\* Content and location strings.  A string is the set of the words it is
\* made of, separated by blanks; TermsOf(w) are the keywords of the detectors
\* that occur in the word w as substrings, so includes is
\* String.prototype.includes on the lower-cased text.
\* ---------------------------------------------------------------------
Vocab == {"teacher", "senior", "sales", "diploma", "routine", "filing", "manual", "developer"}
Locations == {{}, {"chicago"}, {"rural"}}

TermsOf(w) ==
  IF w = "developer" THEN {"developer", "develop"}
  ELSE IF w = "city" THEN {"city", "it"}
  ELSE {w}

includes(content, term) == \E w \in content : term \in TermsOf(w)
\* terms.some(term => content.includes(term)), and  a.includes(x) || a.includes(y)
includesAny(content, terms) == \E term \in terms : includes(content, term)

Entry(type, terms) == [type |-> type, terms |-> terms]

\* variant: the last entry one of whose terms occurs in the content
LastMatch(keywords, content, default) ==
  IF \E i \in 1..Len(keywords) : includesAny(content, keywords[i].terms)
  THEN keywords[CHOOSE i \in 1..Len(keywords) :
                  /\ includesAny(content, keywords[i].terms)
                  /\ \A j \in (i + 1)..Len(keywords) :
                        ~includesAny(content, keywords[j].terms)].type
  ELSE default

\* for (const [type, terms] of Object.entries(keywords)): the first entry, in
\* declaration order, one of whose terms occurs in the content
FirstMatch(keywords, content, default) ==
  IF \E i \in 1..Len(keywords) : includesAny(content, keywords[i].terms)
  THEN keywords[CHOOSE i \in 1..Len(keywords) :
                  /\ includesAny(content, keywords[i].terms)
                  /\ \A j \in 1..(i - 1) : ~includesAny(content, keywords[j].terms)].type
  ELSE default

\* detectOccupationType (onet-processor.ts:952-971)
detectOccupationType(content) ==
  FirstMatch(
    << Entry("administrative_clerical", {"admin", "clerical", "assistant", "coordinator", "office"}),
       Entry("sales_marketing", {"sales", "marketing", "business development", "account"}),
       Entry("software_development", {"developer", "programmer", "software", "engineer", "coding"}),
       Entry("customer_service", {"customer", "support", "service", "help desk"}),
       Entry("data_analysis", {"data", "analyst", "analytics", "insights", "reporting"}),
       Entry("healthcare_direct", {"nurse", "doctor", "medical", "patient", "healthcare"}),
       Entry("physical_trades", {"plumber", "electrician", "mechanic", "construction", "carpenter"}),
       Entry("education", {"teacher", "instructor", "professor", "educator", "training"}) >>,
    content, "administrative_clerical")

\* detectIndustry (onet-processor.ts:973-990)
detectIndustry(content) ==
  FirstMatch(
    << Entry("it_technology", {"tech", "software", "it", "digital", "cloud"}),
       Entry("healthcare", {"health", "medical", "hospital", "clinic", "patient"}),
       Entry("finance", {"finance", "banking", "investment", "accounting"}),
       Entry("education", {"education", "school", "university", "learning"}),
       Entry("manufacturing", {"manufacturing", "production", "factory", "assembly"}),
       Entry("marketing_sales", {"marketing", "sales", "advertising", "brand"}) >>,
    content, "service_operations")

\* detectEducationLevel (onet-processor.ts:992-1000)
detectEducationLevel(content) ==
  IF includesAny(content, {"phd", "doctorate"}) THEN "masters_phd"
  ELSE IF includesAny(content, {"master", "mba"}) THEN "masters_phd"
  ELSE IF includesAny(content, {"bachelor", "degree"}) THEN "bachelors"
  ELSE IF includesAny(content, {"associate", "college"}) THEN "some_college"
  ELSE IF includesAny(content, {"high school", "diploma"}) THEN "high_school"
  ELSE "bachelors"

\* detectLocationType (onet-processor.ts:1002-1016)
detectLocationType(location) ==
  IF includesAny(location, {"san francisco", "seattle", "austin"}) THEN "major_tech_hub"
  ELSE IF includesAny(location, {"new york", "los angeles", "chicago"}) THEN "large_urban"
  ELSE IF includes(location, "city") THEN "mid_urban"
  ELSE IF includes(location, "town") THEN "small_urban"
  ELSE IF includes(location, "rural") THEN "rural"
  ELSE "mid_urban"

\* estimateIncomeBracket (onet-processor.ts:1018-1031)
estimateIncomeBracket(content, occupationType) ==
  IF occupationType \in {"software_development", "data_analysis", "management"} THEN "over_120k"
  ELSE IF occupationType \in {"customer_service", "administrative_clerical"} THEN "30k_60k"
  ELSE IF includesAny(content, {"senior", "director"}) THEN "over_120k"
  ELSE IF includesAny(content, {"entry", "junior"}) THEN "30k_60k"
  ELSE "60k_120k"

Pts(content, terms, points) == IF includesAny(content, terms) THEN points ELSE 0

Min(a, b) == IF a < b THEN a ELSE b

\* the points accumulated by analyzeTaskComposition before it normalizes
\* (onet-processor.ts:1034-1058)
taskPoints(content) ==
  [routine |-> Pts(content, {"repetitive", "routine"}, 30) + Pts(content, {"data entry", "filing"}, 20),
   creative |-> Pts(content, {"design", "create"}, 30) + Pts(content, {"innovate", "develop"}, 20),
   social |-> Pts(content, {"team", "collaborate"}, 30) + Pts(content, {"customer", "client"}, 20),
   physical |-> Pts(content, {"physical", "manual"}, 40) + Pts(content, {"operate", "equipment"}, 20),
   analytical |-> Pts(content, {"analyze", "research"}, 30) + Pts(content, {"problem", "solve"}, 20)]

taskTotal(p) == p.routine + p.creative + p.social + p.physical + p.analytical

\* analyzeTaskComposition (onet-processor.ts:1033-1072) as the scoring formula
\* uses it.  The five shares are numerators over the common denominator den:
\* the points themselves over 1, or, when they sum to more than 100,
\* points * 100 over their sum.  The rounding of the doubles
\* (analyzeTaskCompositionDoubles below) is far below what Math.round of the
\* scores can see.
analyzeTaskComposition(content) ==
  LET p == taskPoints(content)
      total == taskTotal(p)
      k == IF total > 100 THEN 100 ELSE 1
  IN  [routine |-> p.routine * k, creative |-> p.creative * k, social |-> p.social * k,
       physical |-> p.physical * k, analytical |-> p.analytical * k,
       den |-> IF total > 100 THEN total ELSE 1]

\* ---------------------------------------------------------------------
\* The doubles of analyzeTaskComposition.  A double is kept as the natural
\* number of units of 2^-54 it is worth, in limbs: every value
\* that occurs is 0 or at least 1/4, so all of them lie on that grid.
\* ---------------------------------------------------------------------
\* 2^53, the first natural number whose successor is not a double
TwoTo53 == <<992, 5474, 1992, 9007>>
RECURSIVE SmallPow2(_)
SmallPow2(n) == IF n = 0 THEN 1 ELSE 2 * SmallPow2(n - 1)

\* 2^n for n >= 53
Pow2(n) == BigMulSmall(TwoTo53, SmallPow2(n - 53))

\* the limbs of x \div k from limb i downwards, least significant first,
\* for 0 < k < 100000
RECURSIVE BigDivFrom(_, _, _, _)
BigDivFrom(x, k, i, rem) ==
  IF i = 0 THEN <<>>
  ELSE LET v == rem * 10000 + x[i]
       IN  BigDivFrom(x, k, i - 1, v % k) \o <<v \div k>>

RECURSIVE BigModFrom(_, _, _, _)
BigModFrom(x, k, i, rem) ==
  IF i = 0 THEN rem ELSE BigModFrom(x, k, i - 1, (rem * 10000 + x[i]) % k)

BigDiv(x, k) == BigNorm(BigDivFrom(x, k, Len(x), 0))
BigMod(x, k) == BigModFrom(x, k, Len(x), 0)

\* x / k rounded to the nearest integer, ties to even
BigDivNearestEven(x, k) ==
  LET q == BigDiv(x, k)
      r == BigMod(x, k)
  IN  IF 2 * r > k \/ (2 * r = k /\ q[1] % 2 = 1) THEN BigAdd(q, <<1>>) ELSE q

\* the number of low bits a value of q grid units loses in a double
RECURSIVE LostBits(_, _)
LostBits(q, s) ==
  IF ~BigLeq(Pow2(53 + s), q) THEN s ELSE LostBits(q, s + 1)

\* the double nearest to x / k grid units (round to nearest, ties to even)
RoundDouble(x, k) ==
  LET s == LostBits(BigDiv(x, k), 0)
  IN  BigMulSmall(BigDivNearestEven(x, k * SmallPow2(s)), SmallPow2(s))

DoubleOf(n) == BigMulSmall(Pow2(54), n)

\* analyzeTaskComposition (onet-processor.ts:1033-1072) in doubles:
\* scale = 100 / total, then each component *= scale
analyzeTaskCompositionDoubles(content) ==
  LET p == taskPoints(content)
      total == taskTotal(p)
      scale == RoundDouble(DoubleOf(100), total)
      Scaled(c) == IF total > 100 THEN RoundDouble(BigMulSmall(scale, c), 1) ELSE DoubleOf(c)
  IN  [routine |-> Scaled(p.routine), creative |-> Scaled(p.creative),
       social |-> Scaled(p.social), physical |-> Scaled(p.physical),
       analytical |-> Scaled(p.analytical)]

\* ---------------------------------------------------------------------
\* The match scores of ONetProcessor, in doubles kept as natural numbers of
\* units of 2^-60: every score and every term of a score is 0 or at least
\* 1/128, so all of them lie on that grid.
\* ---------------------------------------------------------------------
RECURSIVE BigShr(_, _)
\* x \div 2^n
BigShr(x, n) ==
  IF n = 0 THEN x
  ELSE IF n > 15 THEN BigShr(BigDiv(x, SmallPow2(15)), n - 15)
  ELSE BigDiv(x, SmallPow2(n))

RECURSIVE BigShl(_, _)
\* x * 2^n
BigShl(x, n) ==
  IF n = 0 THEN x
  ELSE IF n > 15 THEN BigShl(BigMulSmall(x, SmallPow2(15)), n - 15)
  ELSE BigMulSmall(x, SmallPow2(n))

RECURSIVE BigMulFromLimb(_, _, _)
BigMulFromLimb(x, y, i) ==
  IF i > Len(y) THEN <<0>>
  ELSE BigAdd(BigMulSmall(x, y[i]), BigNorm(<<0>> \o BigMulFromLimb(x, y, i + 1)))

\* x * y
BigMul(x, y) == BigMulFromLimb(x, y, 1)

\* the double nearest to x / 2^n units (round to nearest, ties to even), n > 0
\* x is q1 / 2 halves of 2^t units and a rest; q is q1 \div 2
RoundHalves(x, n, t, q1, q) ==
  BigShl(IF q1[1] % 2 = 1 /\ (BigShl(q1, t - 1) # x \/ q[1] % 2 = 1)
         THEN BigAdd(q, <<1>>) ELSE q,
         t - n)
RoundShiftBy(x, n, t, q1) == RoundHalves(x, n, t, q1, BigDiv(q1, 2))
RoundShiftTo(x, n, t) == RoundShiftBy(x, n, t, BigShr(x, t - 1))
RoundDoubleShift(x, n) == RoundShiftTo(x, n, n + LostBits(BigShr(x, n), 0))

\* the integer n, and the double a / b of two small integers
Units(n) == BigMulSmall(Pow2(60), n)
\* (the operand of each rounding is computed first: v \in {e} binds v to
\* the value of e)
DoubleQuotient(a, b) == CHOOSE r \in {RoundDouble(v, b) : v \in {Units(a)}} : TRUE
DoubleProduct(x, y) == CHOOSE r \in {RoundDoubleShift(v, 60) : v \in {BigMul(x, y)}} : TRUE
DoubleSum(x, y) == CHOOSE r \in {RoundDouble(v, 1) : v \in {BigAdd(x, y)}} : TRUE
\* the literals 0.3 and 0.2
Point3 == DoubleQuotient(3, 10)
Point2 == DoubleQuotient(2, 10)

\* generateMockOccupationsData (onet-processor.ts:364-484), the fields
\* calculateMatchScore reads, lower-cased: title and description split at
\* blanks, skills, knowledge
MockOccupations ==
  << [onetSocCode |-> "15-1211.00",
      titleWords |-> <<"computer", "systems", "analysts">>,
      descWords |-> <<"analyze", "science,", "engineering,", "business,", "and", "other",
                      "data", "processing", "problems", "to", "implement", "and",
                      "improve", "computer", "systems">>,
      skills |-> <<"systems analysis", "critical thinking", "complex problem solving",
                   "programming">>,
      knowledge |-> <<"computers and electronics", "mathematics",
                      "engineering and technology">>],
     [onetSocCode |-> "27-3031.00",
      titleWords |-> <<"public", "relations", "specialists">>,
      descWords |-> <<"promote", "or", "create", "an", "intended", "public", "image", "for",
                      "individuals,", "groups,", "or", "organizations">>,
      skills |-> <<"writing", "social perceptiveness", "speaking", "reading comprehension">>,
      knowledge |-> <<"communications and media", "english language", "customer service">>],
     [onetSocCode |-> "31-1014.00",
      titleWords |-> <<"nursing", "assistants">>,
      descWords |-> <<"provide", "basic", "patient", "care", "under", "direction", "of",
                      "nursing", "staff">>,
      skills |-> <<"service orientation", "social perceptiveness", "monitoring">>,
      knowledge |-> <<"customer service", "medicine and dentistry", "psychology">>] >>

\* words.filter(word => content.includes(word)).length, for the words of
\* more than minLength characters
CountIn(words, content, minLength) ==
  Cardinality({i \in 1..Len(words) : Len(words[i]) > minLength /\ includes(content, words[i])})

Max(a, b) == IF a > b THEN a ELSE b

\* score += (matches / total) * weight
ScorePlus(score, matches, total, weight) ==
  DoubleSum(score, DoubleProduct(DoubleQuotient(matches, total), weight))
\* Math.min(score, 1.0)
MathMin1(score) == IF BigLeq(score, Units(1)) THEN score ELSE Units(1)

\* calculateMatchScore (onet-processor.ts:80-108)
calculateMatchScore(content, occupation) ==
  LET titleMatches == CountIn(occupation.titleWords, content, 0)
      \* word.length > 3 && content.includes(word)
      descMatches == CountIn(occupation.descWords, content, 3)
      skillMatches == CountIn(occupation.skills, content, 0)
      knowledgeMatches == CountIn(occupation.knowledge, content, 0)
  IN  MathMin1(
        ScorePlus(
          ScorePlus(
            ScorePlus(
              ScorePlus(Units(0), titleMatches, Len(occupation.titleWords), Point3),
              descMatches, Max(1, Len(occupation.descWords)), Point2),
            skillMatches, Max(1, Len(occupation.skills)), Point3),
          knowledgeMatches, Max(1, Len(occupation.knowledge)), Point2))

\* a > b
BigLess(b, a) == ~BigLeq(a, b)

\* processOccupation (onet-processor.ts:113-137), the fields kept here:
\* matchScore is Math.round(matchScore * 100); score is the score it was made
\* of, which the result does not carry
processOccupation(occupationData, matchScore) ==
  LET percent == BigShr(BigAdd(RoundDouble(BigMulSmall(matchScore, 100), 1), Pow2(59)), 60)
  IN  [onetSocCode |-> occupationData.onetSocCode,
       matchScore |-> percent[1] + (IF Len(percent) > 1 THEN 10000 * percent[2] ELSE 0),
       score |-> matchScore]

\* the matches in the order of the table: the occupations scoring above 0.2
RECURSIVE matchesFrom(_, _)
matchesFrom(content, i) ==
  IF i > Len(MockOccupations) THEN <<>>
  ELSE LET matchScore == calculateMatchScore(content, MockOccupations[i])
       IN  (IF BigLess(Point2, matchScore)
            THEN <<[occupation |-> MockOccupations[i], score |-> matchScore]>> ELSE <<>>)
           \o matchesFrom(content, i + 1)

\* m inserted into a list sorted by non-increasing score, behind the
\* members that do not score less
RECURSIVE InsertByScore(_, _)
InsertByScore(m, sorted) ==
  IF sorted = <<>> THEN <<m>>
  ELSE IF BigLess(sorted[1].score, m.score) THEN <<m>> \o sorted
  ELSE <<sorted[1]>> \o InsertByScore(m, Tail(sorted))

\* matches.sort((a, b) => b.score - a.score): a stable sort
RECURSIVE sortByScore(_)
sortByScore(matches) ==
  IF matches = <<>> THEN <<>>
  ELSE InsertByScore(matches[Len(matches)],
                     sortByScore(SubSeq(matches, 1, Len(matches) - 1)))

\* matches.slice(0, limit).map(match => this.processOccupation(...))
\* (lines 66-72), for limit >= 0
topMatches(matches, lim) ==
  [i \in 1..Min(lim, Len(matches)) |->
     processOccupation(matches[i].occupation, matches[i].score)]

\* variant: the matches are cut to the limit in the order of the table
findMatchingOccupationsUnsorted(content, lim) ==
  CHOOSE r \in {topMatches(matches, lim) : matches \in {matchesFrom(content, 1)}} : TRUE

\* findMatchingOccupations (onet-processor.ts:50-75), for limit >= 0
\* (matches \in {e} binds matches to the value of e)
findMatchingOccupations(content, lim) ==
  CHOOSE r \in {topMatches(sorted, lim) :
                  sorted \in {sortByScore(matches) :
                                matches \in {matchesFrom(content, 1)}}} : TRUE

\* assessSkills (onet-processor.ts:1074-1096)
assessSkills(content) ==
  [socialIntelligence |->
     Min(10, 5 + Pts(content, {"leadership", "manage"}, 2) + Pts(content, {"negotiate", "communicate"}, 1)),
   creativity |->
     Min(10, 5 + Pts(content, {"creative", "innovate"}, 2) + Pts(content, {"design", "develop"}, 1)),
   problemSolving |->
     Min(10, 5 + Pts(content, {"problem", "solve"}, 2) + Pts(content, {"analyze", "strategic"}, 1))]

\* assessDemographicRisk (onet-processor.ts:1141-1153): 0.5 times the age
\* factor, as a fraction
assessDemographicRisk(content) ==
  LET age == IF includesAny(content, {"recent grad", "entry level"}) THEN "16_24"
             ELSE IF includesAny(content, {"senior", "20+ years"}) THEN "55_plus"
             ELSE "35_54"
  IN  [n |-> 5 * DEMOGRAPHIC_AGE[age], d |-> 100000000]

\* extractFeatures (onet-processor.ts:770-808)
extractFeatures(input) ==
  LET occupationType == detectOccupationType(input.content) IN
  [occupationType |-> occupationType,
   industry |-> detectIndustry(input.content),
   education |-> detectEducationLevel(input.content),
   location |-> detectLocationType(input.location),
   income |-> estimateIncomeBracket(input.content, occupationType),
   taskComposition |-> analyzeTaskComposition(input.content),
   skills |-> assessSkills(input.content),
   demographicRisk |-> assessDemographicRisk(input.content)]

\* getAutomationProbability (onet-processor.ts:1125-1139), times 100, in tenths
getAutomationProbability(occupationType) ==
  LET mappings ==
        ("administrative_clerical" :> "administrative_support") @@
        ("sales_marketing" :> "retail_sales") @@
        ("software_development" :> "software_developers") @@
        ("customer_service" :> "customer_service") @@
        ("data_analysis" :> "bookkeeping_accounting") @@
        ("healthcare_direct" :> "registered_nurses") @@
        ("physical_trades" :> "plumbers") @@
        ("education" :> "elementary_teachers")
      key == IF occupationType \in DOMAIN mappings THEN mappings[occupationType]
             ELSE "administrative_support"
  IN  OrDefault(AUTOMATION_PROBABILITIES, key, 500)

\* calculateRoutineIndex (onet-processor.ts:1117-1123): the index times
\* 100 * den, for the routine share routine / den
calculateRoutineIndex(taskComposition) ==
  LET r == taskComposition.routine
      den == taskComposition.den
  IN  IF r > 60 * den THEN 5000 * den + 50 * r
      ELSE IF r > 30 * den THEN 10 * den + 133 * r
      ELSE 133 * r

\* calculateBaseVulnerability (onet-processor.ts:815-843):
\*   total      = 0.4 ai + 0.3 taskAutomation + 0.2 routineIndex + 0.1 physicalRequirement
\*   automation = taskAutomation
calculateBaseVulnerability(features) ==
  LET aiApplicability == OrDefault(AI_APPLICABILITY_SCORES, features.occupationType, 30)
      taskAutomation == getAutomationProbability(features.occupationType)
      routineIndex == calculateRoutineIndex(features.taskComposition)
      den == features.taskComposition.den
      \* (1 - physical / 100) * 100, times den
      physicalRequirement == 100 * den - features.taskComposition.physical
  IN  [total |-> [n |-> 400 * aiApplicability * den + 30 * taskAutomation * den
                        + 2 * routineIndex + 100 * physicalRequirement,
                  d |-> 1000 * den],
       automation |-> [n |-> taskAutomation, d |-> 10]]

\* calculateTimeFactor (onet-processor.ts:849-864):
\*   1 / (2045 - currentYear + maturityScore * 5)
\* as the fraction 2 / d, d = 2 * (2045 - currentYear) + 10 * maturityScore;
\* d = 0 stands for 1 / 0 = Infinity and d < 0 for a negative factor
calculateTimeFactor(industry, currentYear) ==
  LET m == IF industry \in DOMAIN INDUSTRY_ADOPTION
           THEN INDUSTRY_ADOPTION[industry].maturity_score ELSE 0
      \* industryData?.maturity_score || 0.5
      maturityScore == IF m # 0 THEN m ELSE 5
  IN  [n |-> 2, d |-> 2 * (2045 - currentYear) + maturityScore]

\* calculateAdoptionRate (onet-processor.ts:870-879)
calculateAdoptionRate(industry) ==
  IF industry \notin DOMAIN INDUSTRY_ADOPTION THEN [n |-> 50 * 115 * 22, d |-> 1000000]
  ELSE LET industryData == INDUSTRY_ADOPTION[industry]
       IN  [n |-> industryData.current * industryData.growth_factor * industryData.value_creation,
            d |-> 1000000]

\* calculateSkillFactor (onet-processor.ts:1098-1115): factor / 3, the factor
\* in tenths
calculateSkillFactor(skills) ==
  LET a == IF skills.socialIntelligence > 6 THEN 9
           ELSE IF skills.socialIntelligence > 4 THEN 5 ELSE 2
      \* creativity > 5.5 and > 3.5 on an integer rating
      b == IF 2 * skills.creativity > 11 THEN 8
           ELSE IF 2 * skills.creativity > 7 THEN 4 ELSE 1
      c == IF skills.problemSolving > 5 THEN 7
           ELSE IF skills.problemSolving > 3 THEN 4 ELSE 2
  IN  [n |-> a + b + c, d |-> 30]

\* calculateProtectionScore (onet-processor.ts:885-912):
\*   total = 0.4 education + 0.3 skill + 0.15 geographic + 0.15 income
calculateProtectionScore(features) ==
  LET educationFactor == OrDefault(EDUCATION_FACTORS, features.education, 20)
      skillFactor == calculateSkillFactor(features.skills)
      geographicFactor == OrDefault(GEOGRAPHIC_FACTORS, features.location, 3)
      incomeFactor == OrDefault(INCOME_FACTORS, features.income, 3)
  IN  [education |-> [n |-> educationFactor, d |-> 100],
       skill |-> skillFactor,
       geographic |-> [n |-> geographicFactor, d |-> 10],
       income |-> [n |-> incomeFactor, d |-> 10],
       total |-> [n |-> 4 * educationFactor + 10 * skillFactor.n
                        + 15 * geographicFactor + 15 * incomeFactor,
                  d |-> 1000]]

\* rawScore * 100 (onet-processor.ts:928-932):
\*   (base.total * timeFactor * adoptionRate) * (1 - protection.total) * 100
\* The base total and the adoption rate are positive, so a zero time-factor
\* denominator gives +Infinity or -Infinity, never NaN.
ScaledScore(baseVulnerability, timeFactor, adoptionRate, protectionScore) ==
  LET rest == protectionScore.total.d - protectionScore.total.n
      num == BigTimes(BigTimes(BigTimes(BigTimes(BigOf(baseVulnerability.total.n),
                 timeFactor.n), adoptionRate.n), Abs(rest)), 100)
      den == BigTimes(BigTimes(BigTimes(BigOf(baseVulnerability.total.d),
                 Abs(timeFactor.d)), adoptionRate.d), protectionScore.total.d)
      neg == (timeFactor.d < 0) # (rest < 0)
  IN  IF timeFactor.d = 0 THEN [Infinity EXCEPT !.neg = rest < 0]
      ELSE [inf |-> FALSE, neg |-> neg /\ num # <<0>>, n |-> num, d |-> den]

\* variant: the lower clamp Math.max(0, .) is missing
calculateFinalScoreNoFloor(baseVulnerability, timeFactor, adoptionRate, protectionScore) ==
  MathMin100(ScaledScore(baseVulnerability, timeFactor, adoptionRate, protectionScore))

\* calculateFinalScore (onet-processor.ts:918-936)
calculateFinalScore(baseVulnerability, timeFactor, adoptionRate, protectionScore) ==
  MathMin100(MathMax0(ScaledScore(baseVulnerability, timeFactor, adoptionRate, protectionScore)))

\* determineRiskLevel (onet-processor.ts:941-946)
determineRiskLevel(score) ==
  IF GeqInt(score, 35) THEN "critical"
  ELSE IF GeqInt(score, 15) THEN "high"
  ELSE IF GeqInt(score, 5) THEN "medium"
  ELSE "low"

TimelinePeriod(period, likelihood, description, impact) ==
  [period |-> period, likelihood |-> likelihood, description |-> description,
   impact |-> impact]

\* riskLevel === 'critical' ? a : riskLevel === 'high' ? b : c
ByTier(riskLevel, a, b, c) ==
  IF riskLevel = "critical" THEN a ELSE IF riskLevel = "high" THEN b ELSE c

\* variant: the tier medium is given the likelihoods of the tier high
generateTimelineStructureMediumAsHigh(riskLevel, industry) ==
  LET tier == IF riskLevel = "medium" THEN "high" ELSE riskLevel IN
  [shortTerm |->
     << TimelinePeriod("6-12 months", ByTier(tier, 85, 65, 40),
                       "Initial AI tool adoption begins in your role",
                       "Workflow adjustments and learning curve"),
        TimelinePeriod("12-18 months", ByTier(tier, 90, 75, 50),
                       "AI becomes standard in industry practices",
                       "Skill requirements begin shifting") >>,
   mediumTerm |->
     << TimelinePeriod("2-3 years", ByTier(tier, 95, 85, 60),
                       "Significant role transformation underway",
                       "Major responsibilities evolve or transfer to AI"),
        TimelinePeriod("3-4 years", ByTier(tier, 98, 90, 70),
                       "Industry reaches AI integration maturity",
                       "New role definitions and career paths emerge") >>,
   longTerm |->
     << TimelinePeriod("5-7 years", 95,
                       "Complete human-AI collaboration model established",
                       "Fundamental industry transformation complete") >>]

\* generateTimelineStructure (onet-processor.ts:1285-1332); industry is not read
generateTimelineStructure(riskLevel, industry) ==
  [shortTerm |->
     << TimelinePeriod("6-12 months", ByTier(riskLevel, 85, 65, 40),
                       "Initial AI tool adoption begins in your role",
                       "Workflow adjustments and learning curve"),
        TimelinePeriod("12-18 months", ByTier(riskLevel, 90, 75, 50),
                       "AI becomes standard in industry practices",
                       "Skill requirements begin shifting") >>,
   mediumTerm |->
     << TimelinePeriod("2-3 years", ByTier(riskLevel, 95, 85, 60),
                       "Significant role transformation underway",
                       "Major responsibilities evolve or transfer to AI"),
        TimelinePeriod("3-4 years", ByTier(riskLevel, 98, 90, 70),
                       "Industry reaches AI integration maturity",
                       "New role definitions and career paths emerge") >>,
   longTerm |->
     << TimelinePeriod("5-7 years", 95,
                       "Complete human-AI collaboration model established",
                       "Fundamental industry transformation complete") >>]

\* timeToImpact: Math.round(12 / timeFactor) (onet-processor.ts:753), in
\* months.  12 / (2 / d) is the integer 6 * d, which the rounding of the two
\* divisions cannot move to another integer; 12 / Infinity is 0.
timeToImpact(timeFactor) == IF timeFactor.d = 0 THEN 0 ELSE 6 * timeFactor.d

\* ValidatedAssessmentEngine.assess (onet-processor.ts:706-765): the
\* vulnerability index of the result, and the unrounded score it came from
assess(input, currentYear) ==
  LET features == extractFeatures(input)
      baseVulnerability == calculateBaseVulnerability(features)
      timeFactor == calculateTimeFactor(features.industry, currentYear)
      adoptionRate == calculateAdoptionRate(features.industry)
      protectionScore == calculateProtectionScore(features)
      aiImpactScore == calculateFinalScore(baseVulnerability, timeFactor,
                                           adoptionRate, protectionScore)
      riskLevel == determineRiskLevel(aiImpactScore)
  IN  [overall |-> MathRound(aiImpactScore),
       breakdown |->
         [automation |-> MathRoundSmall(baseVulnerability.automation.n,
                                        baseVulnerability.automation.d),
          skillTransfer |-> MathRoundSmall(100 * (protectionScore.skill.d - protectionScore.skill.n),
                                           protectionScore.skill.d),
          geographic |-> MathRoundSmall(100 * (protectionScore.geographic.d
                                               - protectionScore.geographic.n),
                                        protectionScore.geographic.d),
          demographic |-> MathRoundSmall(features.demographicRisk.n,
                                         features.demographicRisk.d \div 100)],
       riskLevel |-> riskLevel,
       timeToImpact |-> timeToImpact(timeFactor),
       timeline |-> generateTimelineStructure(riskLevel, features.industry),
       timeFactor |-> timeFactor,
       aiImpactScore |-> aiImpactScore]


\* ---------------------------------------------------------------------
\* State
\* ---------------------------------------------------------------------
VARIABLES
  \* the engine (EnhancedAIAssessmentEngine)
  now,           \* Date.now()
  ticks,         \* number of clock advances so far
  insightCache,  \* this.insightCache
  batchQueue,    \* this.batchQueue: requests in arrival order
  batchTimer,    \* this.batchTimer: the time the pending timer is due, or NoTimer
  batches,       \* the batches drained so far: members and their call results
  req,           \* per assess() call: position and what it has observed
  requestCount,  \* this.requestCount
  cacheHits,     \* this.cacheHits
  nextOid,       \* identity of the next insights object created
  storeCount,    \* number of setCachedInsights calls so far
  \* one response of the external service and what is made of it
  response,
  parsed,
  \* one base assessment: its input, the year of the clock, its result,
  \* and the result of an earlier assessment of the same input
  input,
  currentYear,
  result,
  first,
  \* one POST /api/assess: the request body, whether OPENAI_API_KEY is set,
  \* the response, and the number of engine.assess() calls made
  body,
  hasKey,
  reply,
  engineCalls,
  \* one analyzeTaskComposition: the five shares it returns
  composition,
  \* one generateRecommendations: its arguments and the list it returns
  recInput,
  recs,
  \* one findMatchingOccupations: its limit and the occupations it returns
  \* (the content is input.content)
  limit,
  occupations,
  \* one extractFeatures and one calculateProtectionScore: the feature
  \* record and the protection score made of it
  extracted,
  protection,
  \* one validateInput of a string content: the content, and the content of
  \* the input it returns
  text,
  handed

engineVars == <<now, ticks, insightCache, batchQueue, batchTimer, batches, req,
                requestCount, cacheHits, nextOid, storeCount>>
parseVars == <<response, parsed>>
scoreVars == <<input, currentYear, result, first>>
routeVars == <<body, hasKey, reply, engineCalls>>
taskVars == <<composition>>
recVars == <<recInput, recs>>
occVars == <<limit, occupations>>
featVars == <<extracted, protection>>
sanVars == <<text, handed>>
moreVars == <<occVars, featVars, sanVars>>
otherVars == <<routeVars, taskVars, recVars, moreVars>>
vars == <<engineVars, parseVars, scoreVars, otherVars>>

NoKey == [hash |-> 0, level |-> "none"]
NotParsed == AllFields("none")
NoInput == [content |-> {}, location |-> {}]
NoResult == [overall |-> -1]
NoBody == [kind |-> "none"]
NoReply == [status |-> 0]
NoComposition == [routine |-> <<>>]
NoRecInput == [riskLevel |-> "none"]
NoOccupations == <<[onetSocCode |-> "none", matchScore |-> -1, score |-> <<0>>]>>
NoFeatures == [occupationType |-> "none"]
NoProtection == [total |-> "none"]
NoText == <<>>
NoHanded == [status |-> "none", content |-> <<>>]

\* pc: "none" not called yet, "queued" on the batch queue, "calling" external
\* call in flight, "returned" call finished and batch still pending,
\* "done" assess() resolved, "failed" assess() rejected.
\* enqAt is the time the request was pushed on the queue, kept while its
\* promise is pending; storedAt the time its insights were put in the cache.
NewReq ==
  [pc |-> "none", input |-> InputA, key |-> NoKey, hit |-> FALSE,
   aiInsights |-> NoInsights, settled |-> 0, enqAt |-> -1, batch |-> 0,
   resp |-> NoResp, calls |-> 0, expiredAtLookup |-> FALSE, storedAt |-> -1]

\* the cache of an engine that has served n distinct requests, all answered
\* from the fallback path
PrefilledCache(n) ==
  [i \in 1..n |->
     [key |-> KeyOfInput(PrefillInput(i)),
      data |-> [oid |-> i, src |-> 0, f |-> generateFallbackInsights],
      timestamp |-> 0]]

EngineIdle ==
  /\ now = 0
  /\ ticks = 0
  /\ batchQueue = <<>>
  /\ batchTimer = NoTimer
  /\ batches = <<>>
  /\ req = [r \in Reqs |-> NewReq]
  /\ requestCount = 0
  /\ cacheHits = 0
  /\ nextOid = MAX_CACHE_SIZE + 1
  /\ storeCount = 0

ParseIdle == response = NoResp /\ parsed = NotParsed
ScoreIdle == input = NoInput /\ currentYear = 0 /\ result = NoResult /\ first = NoResult
RouteIdle == body = NoBody /\ hasKey = FALSE /\ reply = NoReply /\ engineCalls = 0
TaskIdle == composition = NoComposition
RecIdle == recInput = NoRecInput /\ recs = <<>>
OccIdle == limit = 0 /\ occupations = NoOccupations
FeatIdle == extracted = NoFeatures /\ protection = NoProtection
SanIdle == text = NoText /\ handed = NoHanded
MoreIdle == OccIdle /\ FeatIdle /\ SanIdle
OtherIdle == RouteIdle /\ TaskIdle /\ RecIdle /\ MoreIdle

EngineInit ==
  /\ EngineIdle
  /\ \E n \in Prefills : insightCache = PrefilledCache(n)
  /\ ParseIdle
  /\ ScoreIdle
  /\ OtherIdle

Pending == [oid |-> -1, src |-> 0, f |-> AllFields("undef")]

\* Promise.all over the calls of a batch is fulfilled (line 924)
AllReturned(results) == \A i \in 1..Len(results) : results[i] # Pending

IndexIn(seq, x) == CHOOSE i \in 1..Len(seq) : seq[i] = x
InSeq(seq, x) == \E i \in 1..Len(seq) : seq[i] = x

\* processBatch up to its first await (enhanced-assessment-engine.ts:903-924):
\* clear the timer, splice the first BATCH_SIZE requests off the queue and
\* start one external call per member.  st = [q, timer, batches, req].
\* withinDelay records whether the last member was pushed less than
\* BATCH_DELAY after the first.
\* variant: the call of a member is made a second time
StartCallTwice(rq, bid) ==
  [rq EXCEPT !.pc = "calling", !.batch = bid, !.calls = @ + 2]

\* batch.map(request => this.generateSingleAIInsight(...)) for one member
\* (lines 916-922): generateSingleAIInsight runs up to its await of
\* openai.chat.completions.create (lines 957-963), so the call is started
StartCall(rq, bid) ==
  [rq EXCEPT !.pc = "calling", !.batch = bid, !.calls = @ + 1]

\* variant: the members of the batch are left on the queue
processBatchNoSplice(st) ==
  LET n == Min(Len(st.q), BATCH_SIZE)
      batch == SubSeq(st.q, 1, n)
      bid == Len(st.batches) + 1
  IN  IF n = 0 THEN [st EXCEPT !.timer = NoTimer]
      ELSE [q |-> st.q,
            timer |-> NoTimer,
            batches |-> Append(st.batches,
                          [members |-> batch, results |-> [i \in 1..n |-> Pending],
                           withinDelay |-> st.req[batch[n]].enqAt - st.req[batch[1]].enqAt
                                             < BATCH_DELAY]),
            req |-> [r \in DOMAIN st.req |->
                      IF InSeq(batch, r)
                      THEN StartCall(st.req[r], bid)
                      ELSE st.req[r]]]

processBatch(st) ==
  LET n == Min(Len(st.q), BATCH_SIZE)
      batch == SubSeq(st.q, 1, n)
      bid == Len(st.batches) + 1
  IN  IF n = 0 THEN [st EXCEPT !.timer = NoTimer]
      ELSE [q |-> SubSeq(st.q, n + 1, Len(st.q)),
            timer |-> NoTimer,
            batches |-> Append(st.batches,
                          [members |-> batch, results |-> [i \in 1..n |-> Pending],
                           withinDelay |-> st.req[batch[n]].enqAt - st.req[batch[1]].enqAt
                                             < BATCH_DELAY]),
            req |-> [r \in DOMAIN st.req |->
                      IF InSeq(batch, r)
                      THEN StartCall(st.req[r], bid)
                      ELSE st.req[r]]]

\* variant: no timer is set for a queue that is not full
generateAIInsightsWithBatchingNoTimer(st, r, t) ==
  LET st1 == [st EXCEPT !.q = Append(@, r),
                        !.req[r].pc = "queued", !.req[r].enqAt = t]
  IN  IF Len(st1.q) >= BATCH_SIZE THEN processBatch(st1)
      ELSE st1

\* generateAIInsightsWithBatching (enhanced-assessment-engine.ts:873-898):
\* the promise executor
generateAIInsightsWithBatching(st, r, t) ==
  LET st1 == [st EXCEPT !.q = Append(@, r),
                        !.req[r].pc = "queued", !.req[r].enqAt = t]
  IN  IF Len(st1.q) >= BATCH_SIZE THEN processBatch(st1)
      ELSE IF st1.timer = NoTimer THEN [st1 EXCEPT !.timer = t + BATCH_DELAY]
      ELSE st1

\* assess() after the awaited insights are available, or on a cache hit
\* (enhanced-assessment-engine.ts:835-867)
FinishAssess(rq, insights) ==
  [rq EXCEPT !.aiInsights = insights,
             !.pc = IF PostProcessingThrows(insights) THEN "failed" ELSE "done"]

\* assess() up to its await on the batch promise
\* (enhanced-assessment-engine.ts:806-833)
AssessArrive(r, inp) ==
  /\ req[r].pc = "none"
  /\ \A q \in 1..(r - 1) : req[q].pc # "none"
  /\ LET key == CacheKeyOf[inp]
         g == getCachedInsights(insightCache, key, now)
         \* the lookup deleted the entry
         rq == [req[r] EXCEPT !.input = inp, !.key = key,
                              !.expiredAtLookup = (Len(g.cache) < Len(insightCache))]
     IN  /\ insightCache' = g.cache
         /\ IF g.data # NoInsights
            THEN /\ cacheHits' = cacheHits + 1
                 /\ req' = [req EXCEPT ![r] = FinishAssess([rq EXCEPT !.hit = TRUE], g.data)]
                 /\ UNCHANGED <<batchQueue, batchTimer, batches>>
            ELSE LET nxt == generateAIInsightsWithBatching(
                              [q |-> batchQueue, timer |-> batchTimer,
                              batches |-> batches, req |-> [req EXCEPT ![r] = rq]], r, now)
                 IN  /\ batchQueue' = nxt.q
                     /\ batchTimer' = nxt.timer
                     /\ batches' = nxt.batches
                     /\ req' = nxt.req
                     /\ UNCHANGED cacheHits
  /\ UNCHANGED <<now, ticks, requestCount, nextOid, storeCount, parseVars, scoreVars, otherVars>>

\* variant: the timer callback runs although the delay has not elapsed
TimerFireEarly ==
  /\ batchTimer # NoTimer
  /\ LET nxt == processBatch([q |-> batchQueue, timer |-> batchTimer,
                             batches |-> batches, req |-> req])
     IN  /\ batchQueue' = nxt.q
         /\ batchTimer' = nxt.timer
         /\ batches' = nxt.batches
         /\ req' = nxt.req
  /\ UNCHANGED <<now, ticks, insightCache, requestCount, cacheHits, nextOid, storeCount,
                 parseVars, scoreVars, otherVars>>

\* the setTimeout callback of line 895; a timer never fires before it is due
TimerFire ==
  /\ batchTimer # NoTimer
  /\ now >= batchTimer
  /\ LET nxt == processBatch([q |-> batchQueue, timer |-> batchTimer,
                             batches |-> batches, req |-> req])
     IN  /\ batchQueue' = nxt.q
         /\ batchTimer' = nxt.timer
         /\ batches' = nxt.batches
         /\ req' = nxt.req
  /\ UNCHANGED <<now, ticks, insightCache, requestCount, cacheHits, nextOid, storeCount,
                 parseVars, scoreVars, otherVars>>

\* variant: only the first member of the batch is resolved
ResolveFirstOnly(batch, results, i, rqs) ==
  [rqs EXCEPT ![batch[1]].settled = @ + 1, ![batch[1]].aiInsights = results[1]]

\* request.resolve(results[index]) for every member, in batch order
\* (enhanced-assessment-engine.ts:927-929)
RECURSIVE ResolveAll(_, _, _, _)
ResolveAll(batch, results, i, rqs) ==
  IF i > Len(batch) THEN rqs
  ELSE ResolveAll(batch, results, i + 1,
         [rqs EXCEPT ![batch[i]].settled = @ + 1, ![batch[i]].aiInsights = results[i]])

\* the continuations of assess() the resolutions make runnable, in the
\* order of the resolutions: cache the insights, then steps 4-6
\* (enhanced-assessment-engine.ts:832-867).  st = [req, cache, stores].
\* A member that was not resolved stays suspended.
RECURSIVE ResumeAll(_, _, _, _)
ResumeAll(batch, i, st, t) ==
  IF i > Len(batch) THEN st
  ELSE LET r == batch[i]
           ins == st.req[r].aiInsights
       IN  IF st.req[r].settled = 0 THEN ResumeAll(batch, i + 1, st, t)
           ELSE ResumeAll(batch, i + 1,
                  [req |-> [st.req EXCEPT ![r] = FinishAssess(
                               [@ EXCEPT !.storedAt = t, !.enqAt = -1], ins)],
                   cache |-> setCachedInsights(st.cache, st.req[r].key, ins, t),
                   stores |-> st.stores + 1], t)

\* The external call of request r returns or throws: the rest of
\* generateSingleAIInsight runs and, when it was the last pending call of
\* its batch, Promise.all is fulfilled and processBatch resolves the members
\* (enhanced-assessment-engine.ts:924-929, 963-1021)
ExternalReturn(r, resp) ==
  /\ req[r].pc = "calling"
  /\ LET b == req[r].batch
         batch == batches[b].members
         obj == [oid |-> nextOid, src |-> r, f |-> generateSingleAIInsight(resp)]
         results == [batches[b].results EXCEPT ![IndexIn(batch, r)] = obj]
         rq1 == [req EXCEPT ![r].resp = resp, ![r].pc = "returned"]
     IN  /\ batches' = [batches EXCEPT ![b].results = results]
         /\ IF AllReturned(results)
            THEN LET nxt == ResumeAll(batch, 1,
                             [req |-> ResolveAll(batch, results, 1, rq1),
                              cache |-> insightCache, stores |-> storeCount], now)
                 IN  /\ req' = nxt.req
                     /\ insightCache' = nxt.cache
                     /\ storeCount' = nxt.stores
            ELSE /\ req' = rq1
                 /\ UNCHANGED <<insightCache, storeCount>>
  /\ requestCount' = requestCount + (IF CountsAsRequest(resp) THEN 1 ELSE 0)
  /\ nextOid' = nextOid + 1
  /\ UNCHANGED <<now, ticks, batchQueue, batchTimer, cacheHits, parseVars, scoreVars, otherVars>>

\* getMetrics (enhanced-assessment-engine.ts:1216-1227): the counters and
\* cacheHitRate = requestCount > 0 ? cacheHits / requestCount : 0, a fraction
getMetrics ==
  [requestCount |-> requestCount,
   cacheHits |-> cacheHits,
   cacheHitRate |-> IF requestCount > 0 THEN [n |-> cacheHits, d |-> requestCount]
                    ELSE [n |-> 0, d |-> 1],
   cacheSize |-> Len(insightCache),
   queueSize |-> Len(batchQueue)]

\* the setInterval callback of line 800
CleanupCache ==
  /\ insightCache' = cleanupCache(insightCache, now)
  /\ UNCHANGED <<now, ticks, batchQueue, batchTimer, batches, req, requestCount,
                 cacheHits, nextOid, storeCount, parseVars, scoreVars, otherVars>>

\* time passes between macrotasks
Tick(d) ==
  /\ ticks < MaxTicks
  /\ now' = now + d
  /\ ticks' = ticks + 1
  /\ UNCHANGED <<insightCache, batchQueue, batchTimer, batches, req, requestCount,
                 cacheHits, nextOid, storeCount, parseVars, scoreVars, otherVars>>

Arrive == \E r \in Reqs, inp \in Inputs : AssessArrive(r, inp)
Return == \E r \in Reqs, resp \in Responses : ExternalReturn(r, resp)
Advance == \E d \in TickSizes : Tick(d)

EngineNext == Arrive \/ TimerFire \/ Return \/ CleanupCache \/ Advance

Init == EngineInit
Next == EngineNext
\* the engine: cache, batch queue, timer and external calls
Spec == Init /\ [][Next]_vars

\* The engine when the external service may stall.  The event loop runs
\* a due timer callback and the continuation of every call that returns;
\* nothing in the engine bounds the time a call takes (the constructor,
\* lines 791-801, sets maxRetries only, and create() at 963-976 is given no
\* timeout or signal), so the calls of the requests in Stalling may never
\* return.
Stalling == {1}
SpecStall ==
  /\ Init
  /\ [][Next]_vars
  /\ WF_vars(TimerFire)
  /\ \A r \in Reqs \ Stalling : WF_vars(\E resp \in Responses : ExternalReturn(r, resp))

\* ---------------------------------------------------------------------
\* The batch queue with more requests than one batch holds.  Every external
\* call succeeds and the requests carry the same input (a request that
\* arrives after one of them has been stored is served from the cache and
\* never queued), so that the queue, the timer and the drains are what
\* varies; time passes only while a timer is pending, until it is due.
\* ---------------------------------------------------------------------
\* number of assess() calls: one full batch and one more request
MaxBatchReq == 4
BatchReqs == 1..MaxBatchReq

BatchInit ==
  /\ now = 0
  /\ ticks = 0
  /\ batchQueue = <<>>
  /\ batchTimer = NoTimer
  /\ batches = <<>>
  /\ req = [r \in BatchReqs |-> NewReq]
  /\ requestCount = 0
  /\ cacheHits = 0
  /\ nextOid = MAX_CACHE_SIZE + 1
  /\ storeCount = 0
  /\ \E n \in Prefills : insightCache = PrefilledCache(n)
  /\ ParseIdle
  /\ ScoreIdle
  /\ OtherIdle

BatchArrive == \E r \in BatchReqs : AssessArrive(r, InputA)
BatchReturn == \E r \in BatchReqs : ExternalReturn(r, RespOk)

\* time passes until the pending timer is due
AwaitTimer ==
  /\ batchTimer # NoTimer
  /\ now < batchTimer
  /\ now' = batchTimer
  /\ UNCHANGED <<ticks, insightCache, batchQueue, batchTimer, batches, req, requestCount,
                 cacheHits, nextOid, storeCount, parseVars, scoreVars, otherVars>>

BatchNext == BatchArrive \/ TimerFire \/ BatchReturn \/ AwaitTimer

\* the event loop runs the callback of a timer that is due, and the time a
\* pending timer is due comes
SpecBatch ==
  /\ BatchInit
  /\ [][BatchNext]_vars
  /\ WF_vars(TimerFire)
  /\ WF_vars(AwaitTimer)

\* ---------------------------------------------------------------------
\* One response of the external service through generateSingleAIInsight
\* ---------------------------------------------------------------------
\* what the call can come back with
ParseInputs ==
  {RespThrow, [kind |-> "jsonnull", f |-> AllFields("undef")]}
  \cup {[kind |-> "json", f |-> MapFields(LAMBDA fld : f[fld])] : f \in [Fields -> JsonVals]}
  \cup {[kind |-> "text",
          f |-> MapFields(LAMBDA fld : IF fld \in Extractable THEN g[fld] ELSE "undef")] :
          g \in [Extractable -> TextVals]}

ParseInit ==
  /\ EngineIdle
  /\ insightCache = <<>>
  /\ response \in ParseInputs
  /\ parsed = NotParsed
  /\ ScoreIdle
  /\ OtherIdle

Parse ==
  /\ parsed = NotParsed
  /\ parsed' = generateSingleAIInsight(response)
  /\ UNCHANGED <<engineVars, response, scoreVars, otherVars>>

ParseNext == Parse
SpecInsight == ParseInit /\ [][ParseNext]_vars

\* ---------------------------------------------------------------------
\* One base assessment through ValidatedAssessmentEngine.assess
\* ---------------------------------------------------------------------
\* the years new Date().getFullYear() is drawn from: the present, and the
\* years around 2045 + 5 * maturity_score where the time factor's
\* denominator reaches zero and changes sign
Years == {2026, 2045, 2048, 2049, 2050}

ScoreInit ==
  /\ EngineIdle
  /\ insightCache = <<>>
  /\ ParseIdle
  /\ input \in [content : SUBSET Vocab, location : Locations]
  /\ currentYear \in Years
  /\ result = NoResult
  /\ first = NoResult
  /\ OtherIdle

AssessBase ==
  /\ result = NoResult
  /\ result' = assess(input, currentYear)
  /\ UNCHANGED <<engineVars, parseVars, input, currentYear, first, otherVars>>

ScoreNext == AssessBase
SpecScore == ScoreInit /\ [][ScoreNext]_vars


\* ---------------------------------------------------------------------
\* Two base assessments of the same input, the calendar year possibly
\* changing between them
\* ---------------------------------------------------------------------
\* the VulnerabilityIndex of a result, as far as it is modelled
VulnerabilityIndex(r) ==
  [overall |-> r.overall, breakdown |-> r.breakdown, riskLevel |-> r.riskLevel,
   timeToImpact |-> r.timeToImpact, timeline |-> r.timeline]

AssessFirst ==
  /\ first = NoResult
  /\ first' = assess(input, currentYear)
  /\ UNCHANGED <<engineVars, parseVars, input, currentYear, result, otherVars>>

\* midnight of 31 December passes, one millisecond after the first call:
\* new Date().getFullYear() changes
NewYear ==
  /\ first # NoResult
  /\ result = NoResult
  /\ now = 0
  /\ now' = now + 1
  /\ currentYear' = currentYear + 1
  /\ UNCHANGED <<ticks, insightCache, batchQueue, batchTimer, batches, req, requestCount,
                 cacheHits, nextOid, storeCount, parseVars, input, result, first, otherVars>>

AssessSecond ==
  /\ first # NoResult
  /\ result = NoResult
  /\ result' = assess(input, currentYear)
  /\ UNCHANGED <<engineVars, parseVars, input, currentYear, first, otherVars>>

TwiceNext == AssessFirst \/ NewYear \/ AssessSecond
SpecTwice == ScoreInit /\ [][TwiceNext]_vars

\* ---------------------------------------------------------------------
\* One call of analyzeTaskComposition
\* ---------------------------------------------------------------------
\* one word for each of the ten indicator tests
TaskVocab ==
  {"routine", "filing", "design", "develop", "team", "client", "manual", "equipment",
   "research", "problem"}

TasksInit ==
  /\ EngineIdle
  /\ insightCache = <<>>
  /\ ParseIdle
  /\ input \in [content : SUBSET TaskVocab, location : {{}}]
  /\ currentYear = 0
  /\ result = NoResult
  /\ first = NoResult
  /\ RouteIdle
  /\ TaskIdle
  /\ RecIdle
  /\ MoreIdle

AnalyzeTasks ==
  /\ composition = NoComposition
  /\ composition' = analyzeTaskCompositionDoubles(input.content)
  /\ UNCHANGED <<engineVars, parseVars, scoreVars, routeVars, recVars, moreVars>>

TasksNext == AnalyzeTasks
SpecTasks == TasksInit /\ [][TasksNext]_vars

\* ---------------------------------------------------------------------
\* One call of generateRecommendations.  The recommendations are their
\* texts, the tier headlines without their leading pictograph.
\* ---------------------------------------------------------------------
\* the three opening recommendations of a risk level (onet-processor.ts:1346-1363)
tierRecs(riskLevel) ==
  IF riskLevel = "critical"
  THEN << "IMMEDIATE ACTION REQUIRED: Begin career transition planning within 3-6 months",
          "Focus on developing AI-complementary skills that cannot be automated",
          "Consider pivoting to AI oversight, quality assurance, or human-AI collaboration roles" >>
  ELSE IF riskLevel = "high"
  THEN << "PROACTIVE ADAPTATION NEEDED: Start upskilling within 12 months",
          "Develop expertise in AI tool management and prompt engineering",
          "Build unique human skills: creativity, empathy, complex reasoning" >>
  ELSE IF riskLevel = "medium"
  THEN << "STRATEGIC POSITIONING: Plan career evolution over 2-3 years",
          "Become an AI implementation leader in your organization",
          "Develop hybrid expertise combining domain knowledge with AI literacy" >>
  ELSE << "MAINTAIN ADVANTAGE: Leverage AI as a productivity multiplier",
          "Focus on high-level strategy and human-centric responsibilities",
          "Mentor others through AI transformation" >>

\* industryRecs (onet-processor.ts:1377-1383)
industryRecs ==
  ("it_technology" :> "Specialize in AI ethics, system architecture, or AI safety") @@
  ("healthcare" :> "Focus on patient care coordination and AI-assisted diagnostics") @@
  ("finance" :> "Develop expertise in AI governance and algorithmic risk management") @@
  ("education" :> "Become expert in personalized AI-enhanced learning design") @@
  ("manufacturing" :> "Master human-robot collaboration and AI quality control")

SocialRec == "Develop interpersonal and leadership skills - these remain uniquely human"
CreativityRec == "Enhance creative problem-solving abilities through design thinking training"
ProblemRec == "Build complex analytical and strategic thinking capabilities"
businessRecs ==
  << "Conduct organization-wide AI readiness assessment",
     "Develop comprehensive employee reskilling programs",
     "Establish AI governance and ethical use frameworks" >>

\* everything generateRecommendations pushes, in the order it pushes it
\* (onet-processor.ts:1343-1393)
pushedRecs(riskLevel, features, userType) ==
  tierRecs(riskLevel)
  \o (IF features.skills.socialIntelligence < 6 THEN <<SocialRec>> ELSE <<>>)
  \o (IF features.skills.creativity < 5 THEN <<CreativityRec>> ELSE <<>>)
  \o (IF features.skills.problemSolving < 5 THEN <<ProblemRec>> ELSE <<>>)
  \o (IF features.industry \in DOMAIN industryRecs
      THEN <<industryRecs[features.industry]>> ELSE <<>>)
  \o (IF userType = "business" THEN businessRecs ELSE <<>>)

\* variant: the list is returned whole
generateRecommendationsUncut(score, riskLevel, features, userType) ==
  pushedRecs(riskLevel, features, userType)

\* generateRecommendations (onet-processor.ts:1337-1396):
\* recommendations.slice(0, 8)
generateRecommendations(score, riskLevel, features, userType) ==
  LET recommendations == pushedRecs(riskLevel, features, userType)
  IN  SubSeq(recommendations, 1, Min(8, Len(recommendations)))

\* the industries detectIndustry returns
Industries ==
  {"it_technology", "healthcare", "finance", "education", "manufacturing",
   "marketing_sales", "service_operations"}
Ratings == 0..10

RecsInit ==
  /\ EngineIdle
  /\ insightCache = <<>>
  /\ ParseIdle
  /\ ScoreIdle
  /\ RouteIdle
  /\ TaskIdle
  /\ MoreIdle
  /\ recInput \in
       [score : {0, 100},
        riskLevel : {"critical", "high", "medium", "low"},
        features : [skills : [socialIntelligence : Ratings, creativity : Ratings,
                              problemSolving : Ratings],
                    industry : Industries],
        userType : {"individual", "business"}]
  /\ recs = <<>>

Recommend ==
  /\ recs = <<>>
  /\ recs' = generateRecommendations(recInput.score, recInput.riskLevel, recInput.features,
                                     recInput.userType)
  /\ UNCHANGED <<engineVars, parseVars, scoreVars, routeVars, taskVars, recInput, moreVars>>

RecsNext == Recommend
SpecRecs == RecsInit /\ [][RecsNext]_vars

\* ---------------------------------------------------------------------
\* One call of ONetProcessor.findMatchingOccupations
\* ---------------------------------------------------------------------
\* words and phrases of the three occupations; none contains another term
OccupationVocab ==
  {"computer", "systems", "analysts", "public", "relations", "specialists",
   "customer service", "nursing", "assistants", "social perceptiveness", "psychology"}
\* the limits: none, fewer than the occupations, and the default 5
Limits == {0, 1, 2, 5}

OccupationsInit ==
  /\ EngineIdle
  /\ insightCache = <<>>
  /\ ParseIdle
  /\ input \in [content : SUBSET OccupationVocab, location : {{}}]
  /\ currentYear = 0
  /\ result = NoResult
  /\ first = NoResult
  /\ RouteIdle
  /\ TaskIdle
  /\ RecIdle
  /\ limit \in Limits
  /\ occupations = NoOccupations
  /\ FeatIdle
  /\ SanIdle

FindOccupations ==
  /\ occupations = NoOccupations
  /\ occupations' = findMatchingOccupations(input.content, limit)
  /\ UNCHANGED <<engineVars, parseVars, scoreVars, routeVars, taskVars, recVars, limit,
                 featVars, sanVars>>

OccupationsNext == FindOccupations
SpecOccupations == OccupationsInit /\ [][OccupationsNext]_vars

\* ---------------------------------------------------------------------
\* One call of extractFeatures (onet-processor.ts:770-808)
\* ---------------------------------------------------------------------
\* keywords of several categories of each detector; none contains another
\* keyword of the detectors
FeatureVocab ==
  {"assistant", "sales", "software", "teacher", "school", "phd", "degree", "diploma",
   "senior", "junior"}
FeatureLocations == {"austin", "chicago", "city", "town", "rural"}

FeaturesInit ==
  /\ EngineIdle
  /\ insightCache = <<>>
  /\ ParseIdle
  /\ input \in [content : SUBSET FeatureVocab, location : SUBSET FeatureLocations]
  /\ currentYear = 0
  /\ result = NoResult
  /\ first = NoResult
  /\ RouteIdle
  /\ TaskIdle
  /\ RecIdle
  /\ OccIdle
  /\ FeatIdle
  /\ SanIdle

ExtractFeatures ==
  /\ extracted = NoFeatures
  /\ extracted' = extractFeatures(input)
  /\ UNCHANGED <<engineVars, parseVars, scoreVars, routeVars, taskVars, recVars, occVars,
                 protection, sanVars>>

FeaturesNext == ExtractFeatures
SpecFeatures == FeaturesInit /\ [][FeaturesNext]_vars

\* ---------------------------------------------------------------------
\* One call of calculateProtectionScore (onet-processor.ts:885-912) on a
\* feature record whose education is any key of EDUCATION_FACTORS or a key
\* the table does not have
\* ---------------------------------------------------------------------
EducationKeys == DOMAIN EDUCATION_FACTORS \cup {"vocational"}

ProtectionInit ==
  /\ EngineIdle
  /\ insightCache = <<>>
  /\ ParseIdle
  /\ input \in [content : SUBSET Vocab, location : Locations]
  /\ currentYear = 0
  /\ result = NoResult
  /\ first = NoResult
  /\ RouteIdle
  /\ TaskIdle
  /\ RecIdle
  /\ OccIdle
  /\ \E education \in EducationKeys :
       extracted = [extractFeatures(input) EXCEPT !.education = education]
  /\ protection = NoProtection
  /\ SanIdle

CalculateProtection ==
  /\ protection = NoProtection
  /\ protection' = calculateProtectionScore(extracted)
  /\ UNCHANGED <<engineVars, parseVars, scoreVars, routeVars, taskVars, recVars, occVars,
                 extracted, sanVars>>

ProtectionNext == CalculateProtection
SpecProtection == ProtectionInit /\ [][ProtectionNext]_vars

\* ---------------------------------------------------------------------
\* POST /api/assess (src/src/app/api/assess/route.ts)
\* A request body is [kind, content, type]:
\*   kind "malformed"  the body is not JSON: request.json() rejects
\*   kind "null"       the body is the JSON value null
\*   kind "object"     a JSON object with the fields content and type
\* content is [kind, length, trimmed]: kind "absent" (undefined or a falsy
\* non-string), "other" (a truthy non-string) or "string", with its length
\* and the length of content.trim().  type is "absent", "other" or one of
\* the two subject types.
\* ---------------------------------------------------------------------
ContentLengths == {0, 49, 50, 51, 50000, 50001}
Contents ==
  {[kind |-> "absent", length |-> 0, trimmed |-> 0],
   [kind |-> "other", length |-> 0, trimmed |-> 0]}
  \cup {[kind |-> "string", length |-> p[1], trimmed |-> p[2]] :
          p \in {q \in ContentLengths \X ContentLengths : q[2] <= q[1]}}
Types == {"absent", "other", "individual", "business"}
Bodies ==
  {[kind |-> k, content |-> [kind |-> "absent", length |-> 0, trimmed |-> 0],
    type |-> "absent"] : k \in {"malformed", "null"}}
  \cup {[kind |-> "object", content |-> c, type |-> t] : c \in Contents, t \in Types}

\* Errors are [class, message, marks]: marks are the substrings among
\* those the handler looks for that the message contains
NoError == [class |-> "none", message |-> "", marks |-> {}]
ValidationError(message) == [class |-> "ValidationError", message |-> message, marks |-> {}]
\* request.json() on a body that is not JSON
ErrBadJson == [class |-> "SyntaxError", message |-> "Unexpected end of JSON input", marks |-> {}]
\* body.content on the body null
ErrNullBody ==
  [class |-> "TypeError", message |-> "Cannot read properties of null (reading 'content')",
   marks |-> {}]
ErrKeyMissing ==
  [class |-> "Error", message |-> "OPENAI_API_KEY is required for assessment engine",
   marks |-> {"OPENAI_API_KEY"}]
\* the rejection of engine.assess() (identifyProtectiveFactors on a
\* uniqueStrengths that is not an array)
ErrAssess ==
  [class |-> "TypeError", message |-> "insights.uniqueStrengths.forEach is not a function",
   marks |-> {}]

Invalid(message) == [ok |-> FALSE, message |-> message]
Valid == [ok |-> TRUE, message |-> ""]

\* variant: a content of exactly 50 characters is refused
validateInputOffByOne(b) ==
  IF b.content.kind # "string" \/ b.content.length = 0
  THEN Invalid("Content is required and must be a string")
  ELSE IF b.type \notin {"individual", "business"}
  THEN Invalid("Type must be either \"individual\" or \"business\"")
  ELSE IF b.content.length <= 50
  THEN Invalid("Content must be at least 50 characters long for meaningful analysis")
  ELSE IF b.content.length > 50000
  THEN Invalid("Content must be less than 50,000 characters")
  ELSE IF b.content.trimmed < 50
  THEN Invalid("Content appears to be empty or insufficient")
  ELSE Valid

\* validateInput (route.ts:191-244): the ValidationError it throws, or Valid.
\* The content it returns is sanitizeContent of the content, below; the
\* optional fields it returns are not part of this model.
validateInput(b) ==
  IF b.content.kind # "string" \/ b.content.length = 0
  THEN Invalid("Content is required and must be a string")
  ELSE IF b.type \notin {"individual", "business"}
  THEN Invalid("Type must be either \"individual\" or \"business\"")
  ELSE IF b.content.length < 50
  THEN Invalid("Content must be at least 50 characters long for meaningful analysis")
  ELSE IF b.content.length > 50000
  THEN Invalid("Content must be less than 50,000 characters")
  ELSE IF b.content.trimmed < 50
  THEN Invalid("Content appears to be empty or insufficient")
  ELSE Valid

\* A string content as the sequence of its pieces [kind, n]:
\*   "letters"  n letters
\*   "blanks"   n blanks
\*   "url"      https:// followed by letters, n characters in all
\*   "numbers"  n times a number of three digits followed by a letter
\* and, in a sanitized content,
\*   "tag"      a replacement such as [URL], n characters
\*   "phones"   n times [PHONE] followed by a letter
\* Pieces of blanks and pieces of other kinds alternate.
Piece(kind, n) == [kind |-> kind, n |-> n]

PieceLength(p) ==
  IF p.kind = "numbers" THEN 4 * p.n
  ELSE IF p.kind = "phones" THEN 8 * p.n
  ELSE p.n

RECURSIVE TextLength(_)
TextLength(t) == IF t = <<>> THEN 0 ELSE PieceLength(Head(t)) + TextLength(Tail(t))

\* String.prototype.trim
RECURSIVE trim(_)
trim(t) ==
  IF t = <<>> THEN t
  ELSE IF Head(t).kind = "blanks" THEN trim(Tail(t))
  ELSE IF t[Len(t)].kind = "blanks" THEN trim(SubSeq(t, 1, Len(t) - 1))
  ELSE t

\* sanitizeContent (route.ts:249-274).  Of the replacements, the one of
\* phone numbers (line 255) turns every number of three digits into
\* [PHONE] and the one of URLs (line 265) turns a URL up to the next blank
\* into [URL]; the other patterns need an @, a longer run of digits or a
\* street word and match none of the pieces.  Then every run of whitespace
\* becomes one blank (line 269) and the result is trimmed (271).
sanitizeContent(content) ==
  LET replaced == [i \in 1..Len(content) |->
                     IF content[i].kind = "numbers" THEN Piece("phones", content[i].n)
                     ELSE IF content[i].kind = "url" THEN Piece("tag", 5)
                     ELSE content[i]]
      collapsed == [i \in 1..Len(replaced) |->
                      IF replaced[i].kind = "blanks" THEN Piece("blanks", 1)
                      ELSE replaced[i]]
  IN  trim(collapsed)

\* the body { content, type: "individual" } of a content given by its pieces
BodyOf(content) ==
  [kind |-> "object",
   content |-> [kind |-> "string", length |-> TextLength(content),
                trimmed |-> TextLength(trim(content))],
   type |-> "individual"]

\* getErrorSuggestion (route.ts:279-289)
getErrorSuggestion(errorCode) ==
  CASE errorCode = "VALIDATION_ERROR" ->
         "Please check your input and ensure all required fields are provided correctly."
    [] errorCode = "API_KEY_MISSING" ->
         "Enhanced analysis is not available. Using standard assessment algorithm."
    [] errorCode = "RATE_LIMIT" ->
         "You have exceeded the rate limit. Please wait a moment before trying again."
    [] errorCode = "TIMEOUT" ->
         "Try breaking your content into smaller sections or use a more concise version."
    [] OTHER ->
         "An unexpected error occurred. Please try again or contact support if the issue persists."

\* variant: the test for a ValidationError is missing
classifyErrorNoValidation(error) ==
  IF error.class \in {"ValidationError", "Error", "TypeError", "SyntaxError"}
  THEN IF "OPENAI_API_KEY" \in error.marks
       THEN [message |-> "OpenAI API key not configured for enhanced analysis",
             code |-> "API_KEY_MISSING", status |-> 503]
       ELSE [message |-> error.message, code |-> "UNKNOWN_ERROR", status |-> 500]
  ELSE [message |-> "Assessment processing failed", code |-> "UNKNOWN_ERROR", status |-> 500]

\* the classification in the catch of POST (route.ts:127-151):
\* errorMessage, errorCode and statusCode
classifyError(error) ==
  IF error.class = "ValidationError"
  THEN [message |-> error.message, code |-> "VALIDATION_ERROR", status |-> 400]
  ELSE IF error.class \in {"Error", "TypeError", "SyntaxError"}
  THEN IF "OPENAI_API_KEY" \in error.marks
       THEN [message |-> "OpenAI API key not configured for enhanced analysis",
             code |-> "API_KEY_MISSING", status |-> 503]
       ELSE IF "rate limit" \in error.marks
       THEN [message |-> "Rate limit exceeded. Please try again later.",
             code |-> "RATE_LIMIT", status |-> 429]
       ELSE IF "timeout" \in error.marks
       THEN [message |-> "Assessment timed out. Please try with shorter content.",
             code |-> "TIMEOUT", status |-> 504]
       ELSE [message |-> error.message, code |-> "UNKNOWN_ERROR", status |-> 500]
  ELSE [message |-> "Assessment processing failed", code |-> "UNKNOWN_ERROR", status |-> 500]

\* what the try block of POST throws (route.ts:24-44), NoError if it runs
\* to the end; outcome is what engine.assess() does when it is reached
Thrown(b, key, outcome) ==
  IF b.kind = "malformed" THEN ErrBadJson
  ELSE IF b.kind = "null" THEN ErrNullBody
  ELSE IF ~validateInput(b).ok THEN ValidationError(validateInput(b).message)
  ELSE IF ~key THEN ErrKeyMissing
  ELSE IF outcome = "rejects" THEN ErrAssess
  ELSE NoError

\* engine.assess() is reached (route.ts:44)
ReachesAssess(b, key) == b.kind = "object" /\ validateInput(b).ok /\ key

\* POST (route.ts:21-171): the response.  assessment says whether the
\* response carries the engine's result; cause is the error caught.
Post(outcome) ==
  /\ reply = NoReply
  /\ LET error == Thrown(body, hasKey, outcome)
         c == classifyError(error)
     IN  reply' = IF error = NoError
                  THEN [status |-> 200, code |-> "", message |-> "", suggestion |-> "",
                        assessment |-> TRUE, cause |-> NoError]
                  ELSE [status |-> c.status, code |-> c.code, message |-> c.message,
                        suggestion |-> getErrorSuggestion(c.code),
                        assessment |-> FALSE, cause |-> error]
  /\ engineCalls' = engineCalls + (IF ReachesAssess(body, hasKey) THEN 1 ELSE 0)
  /\ UNCHANGED <<engineVars, parseVars, scoreVars, body, hasKey, taskVars, recVars, moreVars>>

RouteInit ==
  /\ EngineIdle
  /\ insightCache = <<>>
  /\ ParseIdle
  /\ ScoreIdle
  /\ body \in Bodies
  /\ hasKey \in BOOLEAN
  /\ reply = NoReply
  /\ engineCalls = 0
  /\ TaskIdle
  /\ RecIdle
  /\ MoreIdle

RouteNext == \E outcome \in {"resolves", "rejects"} : Post(outcome)
SpecRoute == RouteInit /\ [][RouteNext]_vars

\* ---------------------------------------------------------------------
\* One call of validateInput on a string content (route.ts:191-244): the
\* content of the input it returns is what POST hands to engine.assess()
\* ---------------------------------------------------------------------
NonBlanks ==
  {Piece("letters", 1), Piece("letters", 50), Piece("letters", 50000),
   Piece("url", 50), Piece("numbers", 13), Piece("numbers", 12500)}
Blanks == {Piece("blanks", 1), Piece("blanks", 48), Piece("blanks", 49)}
Texts ==
  {<<p>> : p \in NonBlanks \cup Blanks}
  \cup {<<q[1], q[2]>> : q \in (NonBlanks \X Blanks) \cup (Blanks \X NonBlanks)}
  \cup {<<q[1], q[2], q[3]>> :
          q \in (NonBlanks \X Blanks \X NonBlanks) \cup (Blanks \X NonBlanks \X Blanks)}

SanitizeInit ==
  /\ EngineIdle
  /\ insightCache = <<>>
  /\ ParseIdle
  /\ ScoreIdle
  /\ RouteIdle
  /\ TaskIdle
  /\ RecIdle
  /\ OccIdle
  /\ FeatIdle
  /\ text \in Texts
  /\ handed = NoHanded

Validate ==
  /\ handed = NoHanded
  /\ handed' = IF validateInput(BodyOf(text)).ok
               THEN [status |-> "handed", content |-> sanitizeContent(text)]
               ELSE [status |-> "rejected", content |-> <<>>]
  /\ UNCHANGED <<engineVars, parseVars, scoreVars, routeVars, taskVars, recVars, occVars,
                 featVars, text>>

SanitizeNext == Validate
SpecSanitize == SanitizeInit /\ [][SanitizeNext]_vars

\* ---------------------------------------------------------------------
\* Properties
\* ---------------------------------------------------------------------

\* C1: every request pushed on the batch queue has its completion handle
\* settled exactly once: it is never settled twice, and once all external
\* calls of its batch have finished it has been settled.
C1_SettledExactlyOnce ==
  \A r \in Reqs :
    /\ req[r].settled <= 1
    /\ (req[r].batch # 0 /\ AllReturned(batches[req[r].batch].results))
         => req[r].settled = 1

\* a batch of two concurrent requests whose calls have both finished, both
\* members settled
C1_Witness ==
  \E b \in 1..Len(batches) :
    /\ Len(batches[b].members) = 2
    /\ AllReturned(batches[b].results)
    /\ \A i \in 1..2 : req[batches[b].members[i]].settled = 1

\* C2: whatever the external call of a request did (it threw, or returned
\* content of the wrong shape), no assess() call is rejected.
C2_NeverRejected ==
  \A r \in Reqs : req[r].pc # "failed"

\* C3: when the response is not JSON and the regular expressions recover
\* none of the fields, the insights returned are the synthesized defaults
\* generateFallbackInsights produces.
C3_NothingRecoveredGivesDefaults ==
  (parsed # NotParsed /\ response = RespProse) => parsed = generateFallbackInsights

\* C4: the reported riskLevel is the tier the thresholds 35, 15, 5 give for
\* the reported overall.
C4_RiskLevelOfOverall ==
  result # NoResult
    => result.riskLevel = determineRiskLevel(FromInt(result.overall))

\* C5: overall and the four breakdown values are within 0..100, for every
\* input and every year of the clock.
C5_ScoresInRange ==
  result # NoResult
    => /\ result.overall \in 0..100
       /\ result.breakdown.automation \in 0..100
       /\ result.breakdown.skillTransfer \in 0..100
       /\ result.breakdown.geographic \in 0..100
       /\ result.breakdown.demographic \in 0..100

\* an assessment in the year the time factor's denominator is zero: the
\* raw score is infinite and the reported overall is 100
C5_Witness ==
  /\ result # NoResult
  /\ result.timeFactor.d = 0
  /\ result.overall = 100

\* C6: a lookup made by assess() for a key whose entry is older than
\* CACHE_TTL is a miss and leaves no entry for the key, whether or not the
\* cleanup has run; and whatever a lookup returns is the data of an entry
\* that is not older than CACHE_TTL.
C6_ExpiredIsMiss ==
  [][\A r \in Reqs :
       (req[r].pc = "none" /\ req'[r].pc # "none") =>
         LET key == req'[r].key
             i == CacheIndex(insightCache, key)
         IN  /\ (i # 0 /\ now - insightCache[i].timestamp > CACHE_TTL)
                  => /\ ~req'[r].hit
                     /\ key \notin CacheKeys(insightCache')
                     /\ Len(insightCache') = Len(insightCache) - 1
             /\ req'[r].hit
                  => /\ i # 0
                     /\ now - insightCache[i].timestamp <= CACHE_TTL
                     /\ req'[r].aiInsights = insightCache[i].data]_vars

\* a request whose lookup found an expired entry and removed it, while
\* other expired entries the cleanup has not purged are still in the cache
C6_Witness ==
  \E r \in Reqs :
    /\ req[r].expiredAtLookup
    /\ ~req[r].hit
    /\ req[r].key \notin CacheKeys(insightCache)
    /\ \E i \in 1..Len(insightCache) : now - insightCache[i].timestamp > CACHE_TTL

\* the keys of the requests that reach line 832 in this step
Storing(r) == req[r].pc \in {"calling", "returned"} /\ req'[r].pc \in {"done", "failed"}

\* C7: insertions of new keys that find the cache full remove its earliest
\* entries, one per insertion into a full cache, keep every other entry in
\* place and put the new entries at the end.
C7_EvictsEarliestOnly ==
  [][LET S == {r \in Reqs : Storing(r)}
         k == Cardinality(S)
         e == Len(insightCache) + k - MAX_CACHE_SIZE
     IN  (/\ k > 0
          /\ e > 0
          /\ \A r \in S : req[r].key \notin CacheKeys(insightCache)
          /\ \A r1, r2 \in S : r1 # r2 => req[r1].key # req[r2].key)
          => /\ Len(insightCache') = MAX_CACHE_SIZE
             /\ \A i \in 1..(MAX_CACHE_SIZE - k) : insightCache'[i] = insightCache[i + e]
             /\ {insightCache'[i].key : i \in (MAX_CACHE_SIZE - k + 1)..MAX_CACHE_SIZE}
                  = {req[r].key : r \in S}]_vars

\* two requests of different batches have stored new keys: the second
\* insertion found the cache full, the earliest entry is gone and the
\* second one is now the first
C7_Witness ==
  /\ Len(insightCache) = MAX_CACHE_SIZE
  /\ Len(batches) = 2
  /\ storeCount = 2
  /\ insightCache[1].key = KeyOfInput(PrefillInput(2))
  /\ insightCache[MAX_CACHE_SIZE - 1].data.src \in Reqs
  /\ insightCache[MAX_CACHE_SIZE].data.src \in Reqs

\* C8: the cache never holds more than MAX_CACHE_SIZE entries.
C8_CacheBounded == Len(insightCache) <= MAX_CACHE_SIZE

\* a full cache after the two members of one batch have stored their insights
C8_Witness ==
  /\ Len(insightCache) = MAX_CACHE_SIZE
  /\ storeCount >= 2
  /\ \E b \in 1..Len(batches) :
       Len(batches[b].members) = 2 /\ AllReturned(batches[b].results)

NoThird(a, b) ==
  \A c \in Reqs \ {a, b} :
    req[c].batch = 0 \/ req[c].batch \notin {req[a].batch, req[b].batch}

\* C10: two requests with distinct cache keys pushed less than BATCH_DELAY
\* apart, with no third request in their batches, are members of the same
\* batch of size 2; and once the calls of such a batch have finished each
\* member is settled with the insights made from its own call's outcome and
\* completes or fails by its own insights alone.
C10_PairSharesBatch ==
  /\ \A a, b \in Reqs :
       (/\ a < b
        /\ req[a].key # req[b].key
        /\ req[a].batch # 0 /\ req[b].batch # 0
        /\ req[a].enqAt >= 0 /\ req[b].enqAt >= 0
        /\ req[b].enqAt - req[a].enqAt < BATCH_DELAY
        /\ NoThird(a, b))
        => /\ req[a].batch = req[b].batch
           /\ batches[req[a].batch].members = <<a, b>>
           /\ batches[req[a].batch].withinDelay
  /\ \A n \in 1..Len(batches) :
       LET batch == batches[n].members IN
       (/\ Len(batch) = 2
        /\ batches[n].withinDelay
        /\ req[batch[1]].key # req[batch[2]].key
        /\ AllReturned(batches[n].results))
        => \A i \in 1..2 :
             LET r == batch[i] IN
             /\ req[r].settled = 1
             /\ req[r].aiInsights.src = r
             /\ req[r].aiInsights.f = generateSingleAIInsight(req[r].resp)
             /\ req[r].pc = IF PostProcessingThrows(req[r].aiInsights) THEN "failed" ELSE "done"

\* a batch of two requests with distinct keys pushed less than BATCH_DELAY
\* apart; the call of one threw, the call of the other succeeded, and each
\* holds the insights of its own call
C10_Witness ==
  \E n \in 1..Len(batches) :
    LET batch == batches[n].members IN
    /\ Len(batch) = 2
    /\ batches[n].withinDelay
    /\ req[batch[1]].key # req[batch[2]].key
    /\ AllReturned(batches[n].results)
    /\ req[batch[1]].resp = RespThrow
    /\ req[batch[2]].resp = RespOk
    /\ req[batch[1]].aiInsights.f = generateFallbackInsights
    /\ req[batch[2]].aiInsights.f = AllFields("valid")
    /\ req[batch[1]].pc = "done" /\ req[batch[2]].pc = "done"
\* C11: a request taken off the queue has had exactly one external call
\* started for it, however long it lives, a request not yet taken off none;
\* and in no state has a call of a batch finished while another member of
\* the batch has no call started.
C11_OneCallPerRequest ==
  /\ \A r \in Reqs :
       req[r].calls = IF req[r].batch # 0 THEN 1 ELSE 0
  /\ \A n \in 1..Len(batches) :
       \A i \in 1..Len(batches[n].members) :
         LET r == batches[n].members[i] IN
         /\ req[r].batch = n
         /\ req[r].calls = 1
         /\ req[r].pc \in {"calling", "returned", "done", "failed"}

\* a batch of two: the call of one member has returned while the call of
\* the other, started with it, is still in flight
C11_Witness ==
  \E n \in 1..Len(batches) :
    /\ Len(batches[n].members) = 2
    /\ req[batches[n].members[1]].pc = "returned"
    /\ req[batches[n].members[2]].pc = "calling"
    /\ req[batches[n].members[1]].calls = 1
    /\ req[batches[n].members[2]].calls = 1
\* C13: every caller waiting for its insights (on the queue, or in a batch
\* whose calls are in flight) is eventually resolved or failed, even when an
\* external call never returns.
C13_NoCallerWaitsForever ==
  \A r \in Reqs :
    (req[r].pc \in {"queued", "calling", "returned"}) ~> (req[r].pc \in {"done", "failed"})

\* a body that is an object with a string content and one of the two types
WellTyped ==
  /\ body.kind = "object"
  /\ body.content.kind = "string"
  /\ body.type \in {"individual", "business"}

\* C14 as stated: of a string content with type individual or business,
\* every one shorter than 50 characters is refused with a validation error
\* and every one of 50 to 50,000 characters is accepted.
C14_LengthAloneDecides ==
  (reply # NoReply /\ WellTyped) =>
    /\ (body.content.length < 50 => reply.code = "VALIDATION_ERROR")
    /\ (body.content.length \in 50..50000 => reply.code # "VALIDATION_ERROR")

\* C14 as amended: of a string content with type individual or business,
\* every one shorter than 50 characters is refused with a validation error,
\* and every one of 50 to 50,000 characters that still has at least 50
\* characters once surrounding whitespace is trimmed is accepted.
C14_TrimmedLengthDecides ==
  (reply # NoReply /\ WellTyped) =>
    /\ (body.content.length < 50 => reply.code = "VALIDATION_ERROR")
    /\ (body.content.length \in 50..50000 /\ body.content.trimmed >= 50
          => reply.code # "VALIDATION_ERROR")

\* a content of exactly 50 characters, none of them surrounding whitespace,
\* has been accepted
C14_Witness ==
  /\ reply # NoReply
  /\ WellTyped
  /\ body.content.length = 50
  /\ body.content.trimmed = 50
  /\ reply.code # "VALIDATION_ERROR"

C16_AssessedWithoutCredential ==
  (reply # NoReply /\ body.kind = "object" /\ validateInput(body).ok /\ ~hasKey) =>
    (reply.status = 200 /\ reply.assessment)

\* C17: an error caught by POST that is reported as UNKNOWN_ERROR is
\* answered with status 500, the UNKNOWN_ERROR suggestion and a message
\* that is not the text of the error itself.
C17_UnknownErrorIsGeneric ==
  (reply # NoReply /\ reply.code = "UNKNOWN_ERROR") =>
    /\ reply.status = 500
    /\ reply.suggestion = getErrorSuggestion("UNKNOWN_ERROR")
    /\ reply.message # reply.cause.message

\* the sum of the five shares, in units of 2^-54
CompositionSum ==
  BigAdd(BigAdd(BigAdd(composition.routine, composition.creative),
                BigAdd(composition.social, composition.physical)),
         composition.analytical)

\* C18: the five shares returned by analyzeTaskComposition sum to at most
\* 100, and when the points accumulated sum to at most 100 the shares are
\* the points themselves.
C18_SharesSumToAtMost100 ==
  composition # NoComposition =>
    /\ BigLeq(CompositionSum, DoubleOf(100))
    /\ LET p == taskPoints(input.content) IN
       taskTotal(p) <= 100 =>
         composition = [routine |-> DoubleOf(p.routine), creative |-> DoubleOf(p.creative),
                        social |-> DoubleOf(p.social), physical |-> DoubleOf(p.physical),
                        analytical |-> DoubleOf(p.analytical)]

\* C19: two assessments of the same input, the second less than the cache
\* lifetime after the first, return the same VulnerabilityIndex.
C19_SameIndexTwice ==
  (first # NoResult /\ result # NoResult /\ now < CACHE_TTL) =>
    VulnerabilityIndex(first) = VulnerabilityIndex(result)

\* the position of recommendation x in the list l, 0 if it is not in it
PositionOf(x, l) ==
  IF \E i \in 1..Len(l) : l[i] = x THEN CHOOSE i \in 1..Len(l) : l[i] = x ELSE 0

\* C20: the list returned starts with the three recommendations of the risk
\* level; then come, each directly after what precedes it, the skill
\* recommendations whose check fires (social intelligence below 6,
\* creativity below 5, problem solving below 5), the recommendation of the
\* industry if it has one, and for a business the three business
\* recommendations; whatever of these falls beyond the eighth place is
\* absent, and nothing else is in the list.
C20_RecommendationsInOrder ==
  recs # <<>> =>
    LET skills == recInput.features.skills
        industry == recInput.features.industry
        social == IF skills.socialIntelligence < 6 THEN 1 ELSE 0
        creativity == IF skills.creativity < 5 THEN 1 ELSE 0
        problem == IF skills.problemSolving < 5 THEN 1 ELSE 0
        hasEntry == industry \in {"it_technology", "healthcare", "finance", "education",
                                  "manufacturing"}
        specific == IF hasEntry THEN 1 ELSE 0
        business == IF recInput.userType = "business" THEN 3 ELSE 0
        gaps == social + creativity + problem
        \* x is at place n if that place is within the first eight, else absent
        At(x, n) == PositionOf(x, recs) = IF n <= 8 THEN n ELSE 0
    IN  /\ Len(recs) = Min(8, 3 + gaps + specific + business)
        /\ SubSeq(recs, 1, 3) = tierRecs(recInput.riskLevel)
        /\ IF social = 1 THEN At(SocialRec, 4) ELSE PositionOf(SocialRec, recs) = 0
        /\ IF creativity = 1 THEN At(CreativityRec, 4 + social)
           ELSE PositionOf(CreativityRec, recs) = 0
        /\ IF problem = 1 THEN At(ProblemRec, 4 + social + creativity)
           ELSE PositionOf(ProblemRec, recs) = 0
        /\ \A k \in DOMAIN industryRecs :
             IF k = industry THEN At(industryRecs[k], 4 + gaps)
             ELSE PositionOf(industryRecs[k], recs) = 0
        /\ \A j \in 1..3 :
             IF business = 3 THEN At(businessRecs[j], 3 + gaps + specific + j)
             ELSE PositionOf(businessRecs[j], recs) = 0

\* a business with all three skill checks firing and an industry with an
\* entry: ten recommendations were pushed and eight returned, the last of
\* them the first business recommendation
C20_Witness ==
  /\ Len(recs) = 8
  /\ recInput.userType = "business"
  /\ recInput.features.skills.socialIntelligence < 6
  /\ recInput.features.skills.creativity < 5
  /\ recInput.features.skills.problemSolving < 5
  /\ recInput.features.industry = "finance"
  /\ recs[8] = businessRecs[1]

\* the likelihoods of a list of timeline records
Likelihoods(periods) == [i \in 1..Len(periods) |-> periods[i].likelihood]

\* C21: the timeline of an assessment has two short-term, two medium-term
\* and one long-term record; their likelihoods are 85, 90 / 95, 98 for the
\* tier critical, 65, 75 / 85, 90 for high, 40, 50 / 60, 70 for medium and
\* for low alike, and 95 in the long term for every tier.
C21_TimelineOfTier ==
  result # NoResult =>
    LET t == result.timeline
        expected ==
          CASE result.riskLevel = "critical" -> <<85, 90, 95, 98>>
            [] result.riskLevel = "high" -> <<65, 75, 85, 90>>
            [] result.riskLevel \in {"medium", "low"} -> <<40, 50, 60, 70>>
    IN  /\ Len(t.shortTerm) = 2
        /\ Len(t.mediumTerm) = 2
        /\ Len(t.longTerm) = 1
        /\ Likelihoods(t.shortTerm) \o Likelihoods(t.mediumTerm) = expected
        /\ t.longTerm[1].likelihood = 95

\* an assessment of the tier low, with the likelihoods of the tier medium
C21_Witness ==
  /\ result # NoResult
  /\ result.riskLevel = "low"
  /\ Likelihoods(result.timeline.shortTerm) = <<40, 50>>
  /\ Likelihoods(result.timeline.mediumTerm) = <<60, 70>>

\* the occupations of the table that are not among those returned
NotReturned ==
  {i \in 1..Len(MockOccupations) :
     \A j \in 1..Len(occupations) :
       occupations[j].onetSocCode # MockOccupations[i].onetSocCode}

\* C22: findMatchingOccupations returns at most limit occupations, each once
\* and each with a score above 0.2, in an order of non-increasing score (and
\* of non-increasing rounded matchScore); an occupation that scores above
\* 0.2 and is not returned scores no more than any that is, and is left out
\* only when limit occupations are returned; content without any word of an
\* occupation gives the empty list.
C22_TopMatchesInOrder ==
  occupations # NoOccupations =>
    /\ Len(occupations) <= limit
    /\ \A j \in 1..Len(occupations) :
         /\ BigLess(Point2, occupations[j].score)
         /\ \E i \in 1..Len(MockOccupations) :
              /\ MockOccupations[i].onetSocCode = occupations[j].onetSocCode
              /\ calculateMatchScore(input.content, MockOccupations[i]) = occupations[j].score
         /\ \A k \in 1..Len(occupations) :
              /\ j < k => BigLeq(occupations[k].score, occupations[j].score)
              /\ j < k => occupations[k].matchScore <= occupations[j].matchScore
              /\ j # k => occupations[j].onetSocCode # occupations[k].onetSocCode
    /\ \A i \in NotReturned :
         BigLess(Point2, calculateMatchScore(input.content, MockOccupations[i])) =>
           /\ Len(occupations) = limit
           /\ \A j \in 1..Len(occupations) :
                BigLeq(calculateMatchScore(input.content, MockOccupations[i]),
                       occupations[j].score)
    /\ input.content = {} => occupations = <<>>

\* two occupations are returned, the later of the table first, and a third
\* that scores above 0.2 is cut off by the limit
C22_Witness ==
  /\ occupations # NoOccupations
  /\ limit = 2
  /\ Len(occupations) = 2
  /\ occupations[1].onetSocCode = MockOccupations[3].onetSocCode
  /\ BigLess(occupations[2].score, occupations[1].score)
  /\ \E i \in NotReturned :
       BigLess(Point2, calculateMatchScore(input.content, MockOccupations[i]))

C24_DrainsAreBatches ==
  [][LET pushed == {r \in DOMAIN req :
                      req[r].pc = "none" /\ req'[r].pc \in {"queued", "calling"}}
         queue == IF pushed = {} THEN batchQueue
                  ELSE Append(batchQueue, CHOOSE r \in pushed : TRUE)
         n == Min(Len(queue), BATCH_SIZE)
         drained == Len(batches') > Len(batches)
         timerFired == /\ pushed = {}
                       /\ batchTimer # NoTimer
                       /\ now >= batchTimer
                       /\ batchTimer' = NoTimer
     IN  /\ Cardinality(pushed) <= 1
         /\ drained <=> ((pushed # {} /\ Len(queue) = BATCH_SIZE) \/ timerFired)
         /\ timerFired => batchTimer = req[batchQueue[1]].enqAt + BATCH_DELAY
         /\ drained =>
              /\ n >= 1
              /\ Len(batches') = Len(batches) + 1
              /\ batches'[Len(batches')].members = SubSeq(queue, 1, n)
              /\ batchQueue' = SubSeq(queue, n + 1, Len(queue))
         /\ ~drained => batchQueue' = queue
         /\ \A i \in 1..Len(batches) : batches'[i].members = batches[i].members
         /\ \A i \in 1..Len(batches') : Len(batches'[i].members) \in 1..BATCH_SIZE
         /\ \A i, j \in 1..Len(batches') :
              \A k \in 1..Len(batches'[i].members), l \in 1..Len(batches'[j].members) :
                batches'[i].members[k] = batches'[j].members[l] => (i = j /\ k = l)
    ]_vars

\* the third request filled the queue and was drained with the two before
\* it; the fourth was drained alone by its timer
C24_Witness ==
  /\ Len(batches) = 2
  /\ batches[1].members = <<1, 2, 3>>
  /\ Len(batches[1].members) = BATCH_SIZE
  /\ batches[2].members = <<4>>
  /\ batchQueue = <<>>
  /\ batchTimer = NoTimer

\* C30: in every state (after the synchronous part of an enqueue or of a
\* drain) a non-empty queue has a timer pending; and, timers firing when
\* due, every request on the queue is eventually taken off it.
C30_NoneStranded ==
  /\ [](batchQueue # <<>> => batchTimer # NoTimer)
  /\ \A r \in BatchReqs : InSeq(batchQueue, r) ~> (req[r].batch # 0)

\* the timer has drained the first two requests, and the third waits on the
\* queue with its own timer pending
C30_Witness ==
  /\ Len(batches) = 1
  /\ batches[1].members = <<1, 2>>
  /\ batchQueue = <<3>>
  /\ batchTimer = req[3].enqAt + BATCH_DELAY
  /\ now < batchTimer

\* C27: whatever assess() calls have been made, the cacheHitRate reported
\* by getMetrics is between 0 and 1: the hits do not exceed the number they
\* are divided by.
C27_HitRateAtMostOne ==
  LET rate == getMetrics.cacheHitRate
  IN  0 <= rate.n /\ rate.n <= rate.d

\* C29: setCachedInsights removes an entry only to make room for a new key.
\* In a step that stores insights, no more entries are lost than the keys
\* new to the cache need room for, and a step that only writes keys already
\* present loses no entry and leaves the number of entries as it was.
C29_RewriteEvictsNothing ==
  [][storeCount' > storeCount =>
       LET before == CacheKeys(insightCache)
           after == CacheKeys(insightCache')
           added == after \ before
           lost == before \ after
       IN  /\ Cardinality(lost)
                <= Max(0, Len(insightCache) + Cardinality(added) - MAX_CACHE_SIZE)
           /\ added = {} => (lost = {} /\ Len(insightCache') = Len(insightCache))
    ]_vars

\* C25: two assess() calls with the same cache key that are in flight
\* together have both missed the cache and get one external call each; in
\* the step in which calls complete, each receives the whole insights
\* object made from its own external call, and the cache then holds exactly
\* one entry for the key, whose data is the object of the assess() call
\* that completed last (the later one in the order the batch resolves).
C25_LastWriteWins ==
  /\ [](\A a, b \in Reqs :
          (/\ a # b
           /\ req[a].key = req[b].key
           /\ req[a].pc \in {"queued", "calling", "returned"}
           /\ req[b].pc \in {"queued", "calling", "returned"})
          => /\ ~req[a].hit /\ ~req[b].hit
             /\ req[a].calls = (IF req[a].batch # 0 THEN 1 ELSE 0)
             /\ req[b].calls = (IF req[b].batch # 0 THEN 1 ELSE 0))
  /\ [][LET stored == {r \in Reqs : req[r].storedAt = -1 /\ req'[r].storedAt # -1}
        IN  \A r \in stored :
              LET batch == batches[req[r].batch].members
                  same == {q \in stored : req[q].key = req[r].key}
                  last == CHOOSE q \in same :
                            \A p \in same : IndexIn(batch, p) <= IndexIn(batch, q)
                  entries == {i \in 1..Len(insightCache') :
                                insightCache'[i].key = req[r].key}
              IN  /\ req'[r].aiInsights.src = r
                  /\ req'[r].aiInsights.f = generateSingleAIInsight(req'[r].resp)
                  /\ Cardinality(entries) = 1
                  /\ \A i \in entries : insightCache'[i].data = req'[last].aiInsights
       ]_vars

\* two requests with one key in one batch; the external call of the first
\* returned after that of the second, with a different outcome; both have
\* completed, each with its own object, and the cache holds the object of
\* the second, which completed last
C25_Witness ==
  /\ Len(batches) = 1
  /\ batches[1].members = <<1, 2>>
  /\ req[1].key = req[2].key
  /\ req[1].pc = "done" /\ req[2].pc = "done"
  /\ ~req[1].hit /\ ~req[2].hit
  /\ req[1].aiInsights.oid > req[2].aiInsights.oid
  /\ req[1].aiInsights.src = 1 /\ req[2].aiInsights.src = 2
  /\ req[1].aiInsights.f # req[2].aiInsights.f
  /\ Cardinality({i \in 1..Len(insightCache) : insightCache[i].key = req[1].key}) = 1
  /\ insightCache[CacheIndex(insightCache, req[1].key)].data = req[2].aiInsights

\* C28: the content validateInput hands on, which is the content after
\* sanitizeContent, has at least 50 and at most 50,000 characters.
C28_HandedContentInBounds ==
  handed.status = "handed" =>
    (50 <= TextLength(handed.content) /\ TextLength(handed.content) <= 50000)
====
